---- MODULE Spec2Model ----
(***************************************************************************)
(* Model of the Learning Agent: the asset-aware learning cycle of          *)
(* learning_agent/logic.py (run_learning_cycle and its helpers), the       *)
(* standalone analyzer, the trade history client, the regime classifiers,  *)
(* the Bias Store and the GET /bias endpoint.                              *)
(*                                                                         *)
(* Numbers.  The code computes with Python floats and numpy float64, and   *)
(* so does the model: every float of the code is an IEEE 754 binary64      *)
(* value here, and every operation on floats rounds as the hardware does   *)
(* (round to nearest, ties to even), in the order in which the code and    *)
(* numpy apply it.  A Decimal of the request is a whole number of          *)
(* 1/PnlScale, a price a whole number.                                     *)
(***************************************************************************)
EXTENDS Integers, Sequences, FiniteSets, TLC

PnlScale == 100

\* the list with the elements of f, a function over 1..n
ListOf(f) == <<>> \o f

(***************************************************************************)
(* IEEE 754 binary64 arithmetic.  A double is [s, h, l, e]: its value is   *)
(* s * (h * Word + l) * 2^e with s in {-1, 0, 1}; unless s = 0 the         *)
(* mantissa h * Word + l has exactly 53 bits (2^24 <= h < 2^25,            *)
(* 0 <= l < Word).  Zero is FZero (the sign of zero is not kept: -0.0 and  *)
(* 0.0 compare equal in the code); infinities, NaN and subnormal numbers   *)
(* are not reached by the numbers of the model.                            *)
(***************************************************************************)
Word == 268435456
Limb == 16384

\* the number of bits of 0 < v < 2^29
BitLen(v) == 29 - (CHOOSE j \in 0..28 : v >= 2^(28 - j))

\* v with its lowest bit set when a non-zero part below it was dropped
Sticky(v, dropped) == IF dropped THEN v + 1 - (v % 2) ELSE v

FZero == [s |-> 0, h |-> 0, l |-> 0, e |-> 0]

\* the double nearest to s * (h * Word + l) * 2^e for a 56-bit h * Word + l
\* (2^27 <= h < Word): the three lowest bits are rounded away
FPack(s, h, l, e) ==
  LET low == (h % 8) * 33554432 + (l \div 8)
             + (IF l % 8 > 4 THEN 1 ELSE IF l % 8 = 4 THEN (l \div 8) % 2 ELSE 0)
  IN IF low < Word THEN [s |-> s, h |-> h \div 8, l |-> low, e |-> e + 3]
     ELSE IF (h \div 8) + 1 < 33554432
     THEN [s |-> s, h |-> (h \div 8) + 1, l |-> 0, e |-> e + 3]
     ELSE [s |-> s, h |-> 16777216, l |-> 0, e |-> e + 4]

\* the double nearest to s * (h * Word + l) * 2^e, for 0 < h * Word + l < 2^57
FNorm(s, h, l, e) ==
  LET Packed(m) == FPack(s, m[1], m[2], m[3])
      Left(k) == <<h * 2^k + (l \div 2^(28 - k)), (l % 2^(28 - k)) * 2^k, e - k>>
      LeftByAWord(k) == <<l * 2^k, 0, e - 28 - k>>
  IN Packed(IF h >= Word
            THEN <<h \div 2, Sticky((h % 2) * 134217728 + (l \div 2), l % 2 = 1), e + 1>>
            ELSE IF h >= 134217728 THEN <<h, l, e>>
            ELSE IF h > 0 THEN Left(28 - BitLen(h))
            ELSE LeftByAWord(28 - BitLen(l)))

\* float(n) of a machine integer
FInt(n) ==
  LET Signed(s, m) == FNorm(s, m \div Word, m % Word, 0)
  IN IF n = 0 THEN FZero ELSE Signed(IF n < 0 THEN -1 ELSE 1, IF n < 0 THEN -n ELSE n)

FNeg(x) == [x EXCEPT !.s = -@]

FAbs(x) == [x EXCEPT !.s = @ * @]

\* -1, 0 or 1 as x < y, x = y or x > y
FCmp(x, y) ==
  IF x.s # y.s THEN (IF x.s < y.s THEN -1 ELSE 1)
  ELSE IF x.s = 0 THEN 0
  ELSE IF x.e # y.e THEN (IF x.e < y.e THEN -x.s ELSE x.s)
  ELSE IF x.h # y.h THEN (IF x.h < y.h THEN -x.s ELSE x.s)
  ELSE IF x.l # y.l THEN (IF x.l < y.l THEN -x.s ELSE x.s)
  ELSE 0

FLt(x, y) == FCmp(x, y) < 0
FGt(x, y) == FCmp(x, y) > 0

\* <<h, l>>: the mantissa of y times 8, shifted right by d bits, the bits
\* dropped kept as sticky
FAligned(y, d) ==
  LET Shifted(h, l) ==
        IF d = 0 THEN <<h, l>>
        ELSE IF d >= 56 THEN <<0, 1>>
        ELSE IF d >= 28
        THEN <<0, Sticky(h \div 2^(d - 28),
                         IF l # 0 THEN TRUE ELSE h % 2^(d - 28) # 0)>>
        ELSE <<h \div 2^d,
               Sticky((l \div 2^d) + (h % 2^d) * 2^(28 - d), l % 2^d # 0)>>
  IN Shifted(y.h * 8 + (y.l \div 33554432), (y.l % 33554432) * 8)

FAdd(x, y) ==
  LET \* u + v for |u| >= |v| > 0
      Ordered(u, v) ==
        LET Normed(m) == IF m = <<0, 0>> THEN FZero ELSE FNorm(u.s, m[1], m[2], u.e - 3)
            Sum(a, b) ==
              Normed(IF u.s = v.s
                     THEN <<a[1] + b[1] + ((a[2] + b[2]) \div Word), (a[2] + b[2]) % Word>>
                     ELSE IF a[2] < b[2] THEN <<a[1] - b[1] - 1, a[2] - b[2] + Word>>
                     ELSE <<a[1] - b[1], a[2] - b[2]>>)
        IN Sum(FAligned(u, 0), FAligned(v, u.e - v.e))
      Larger(first) == Ordered(IF first THEN x ELSE y, IF first THEN y ELSE x)
  IN IF x.s = 0 THEN y
     ELSE IF y.s = 0 THEN x
     ELSE Larger(FCmp(FAbs(x), FAbs(y)) >= 0)

FSub(x, y) == FAdd(x, FNeg(y))

\* x * y.  The product of the mantissas a and b, given as digits: the sums of the
\* digit products of each place, the carries taken along, as four base-Word
\* digits w[1] (lowest) .. w[4]; then its 56 leading bits with the rest as
\* sticky
FMul(x, y) ==
  LET \* the four base-Limb digits of h * Word + l, lowest first
      LimbsOf(h, l) == <<l % Limb, l \div Limb, h % Limb, h \div Limb>>
      Mantissas(s, a, b, e) ==
      LET Carried(t1, c2, c3, c4, c5, c6, c7) ==
            LET T2(t2) ==
                  LET T3(t3) ==
                        LET T4(t4) ==
                              LET T5(t5) ==
                                    LET T6(t6) ==
                                          <<(t2 % Limb) * Limb + (t1 % Limb),
                                            (t4 % Limb) * Limb + (t3 % Limb),
                                            (t6 % Limb) * Limb + (t5 % Limb),
                                            c7 + (t6 \div Limb)>>
                                    IN T6(c6 + (t5 \div Limb))
                              IN T5(c5 + (t4 \div Limb))
                        IN T4(c4 + (t3 \div Limb))
                  IN T3(c3 + (t2 \div Limb))
            IN T2(c2 + (t1 \div Limb))
          \* the 56 bits from bit number 112 - k of the product on
          Bits(w, k) ==
            FPack(s, w[4] * 2^k + (w[3] \div 2^(28 - k)),
                  Sticky((w[3] % 2^(28 - k)) * 2^k + (w[2] \div 2^(28 - k)),
                         IF w[1] # 0 THEN TRUE ELSE w[2] % 2^(28 - k) # 0),
                  e + 56 - k)
          Leading(w) == Bits(w, IF w[4] >= 2097152 THEN 6 ELSE 7)
      IN Leading(Carried(a[1] * b[1],
                         a[1] * b[2] + a[2] * b[1],
                         a[1] * b[3] + a[2] * b[2] + a[3] * b[1],
                         a[1] * b[4] + a[2] * b[3] + a[3] * b[2] + a[4] * b[1],
                         a[2] * b[4] + a[3] * b[3] + a[4] * b[2],
                         a[3] * b[4] + a[4] * b[3],
                         a[4] * b[4]))
  IN IF x.s = 0 THEN FZero
     ELSE IF y.s = 0 THEN FZero
     ELSE Mantissas(x.s * y.s, LimbsOf(x.h, x.l), LimbsOf(y.h, y.l), x.e + y.e)

\* q * d for a base-Limb digit q and a mantissa d = <<high, low>>, as three
\* base-Word digits, lowest first
DigitTimes(q, d) ==
  LET Carried(low, mid, top) ==
        <<low % Word, (mid + (low \div Word)) % Word,
          top + ((mid + (low \div Word)) \div Word)>>
  IN Carried(q * (d[2] % Limb) + ((q * (d[2] \div Limb)) % Limb) * Limb,
             ((q * (d[2] \div Limb)) \div Limb) + q * (d[1] % Limb)
             + ((q * (d[1] \div Limb)) % Limb) * Limb,
             (q * (d[1] \div Limb)) \div Limb)

\* the next digit of a long division of r = <<high, low>> by d, r < d and
\* d[1] >= Word / 2: [q, r] with r * Limb = q * d + the new r.  The estimate
\* from the leading digits is the digit or up to 2 more
DivDigit(r, d) ==
  LET Left(u, p) ==
        IF u[1] < p[1] THEN <<(u[2] - p[2] - 1 + Word) % Word, u[1] - p[1] + Word>>
        ELSE <<(u[2] - p[2] + Word) % Word, u[1] - p[1]>>
      Exceeds(p, u) ==
        IF p[3] # u[3] THEN p[3] > u[3]
        ELSE IF p[2] # u[2] THEN p[2] > u[2]
        ELSE p[1] > u[1]
      Fits(q, u) == ~Exceeds(DigitTimes(q, d), u)
      Digit(q, u) == [q |-> q, r |-> Left(u, DigitTimes(q, d))]
      Taken(q, u) ==
        Digit(IF Fits(q, u) THEN q ELSE IF Fits(q - 1, u) THEN q - 1 ELSE q - 2, u)
  IN Taken(IF r[1] \div (d[1] \div Limb) > Limb - 1 THEN Limb - 1
           ELSE r[1] \div (d[1] \div Limb),
           <<(r[2] % Limb) * Limb, (r[1] % Limb) * Limb + (r[2] \div Limb),
             r[1] \div Limb>>)

\* the digits of the quotient up to n of them: st is [q, r], the digits
\* found, highest first, and the remainder
RECURSIVE DivDigits(_, _, _)
DivDigits(st, d, n) ==
  LET Found(t) == [q |-> Append(st.q, t.q), r |-> t.r]
  IN IF Len(st.q) = n THEN st ELSE DivDigits(Found(DivDigit(st.r, d)), d, n)

\* x / y for y # 0.  a and d are the mantissas times 8; the quotient of
\* a (doubled when a < d) by d starts with the bit 1, and four base-Limb
\* digits (56 bits) follow, the last bit set when the division leaves a
\* remainder
FDiv(x, y) ==
  LET Mantissas(s, a, d, e) ==
      LET Quotient(st, e1) ==
            FNorm(s, Word + st.q[1] * Limb + st.q[2],
                  Sticky(st.q[3] * Limb + st.q[4], st.r # <<0, 0>>), e1)
          First(h, l, e1) ==
            Quotient(DivDigits([q |-> <<>>,
                                r |-> IF l < 0 THEN <<h - 1, l + Word>> ELSE <<h, l>>],
                               d, 4),
                     e1)
          Doubled(k) ==
            First(k * a[1] + ((k * a[2]) \div Word) - d[1], ((k * a[2]) % Word) - d[2],
                  e - 55 - k)
      IN Doubled(IF a[1] > d[1] \/ (a[1] = d[1] /\ a[2] >= d[2]) THEN 1 ELSE 2)
  IN IF x.s = 0 THEN FZero
     ELSE Mantissas(x.s * y.s, FAligned(x, 0), FAligned(y, 0), x.e - y.e)

\* The square root bit by bit: step j brings down the next two bits of the
\* 112-bit n = (n3 * Word + n2) * Word^2 into the remainder and finds the
\* next bit of the root.  st is [j, rh, rl, qh, ql]: after j steps the
\* remainder is rh * Word + rl and the root qh * Word + ql.  SqrtBits finds
\* the bits up to bit number last
RECURSIVE SqrtBits(_, _, _, _)
SqrtBits(n3, n2, st, last) ==
  LET Bit ==
      LET Step(h, l, th, tl, qh, ql) ==
            IF h > th \/ (h = th /\ l >= tl)
            THEN (IF l < tl
                  THEN [j |-> st.j + 1, rh |-> h - th - 1, rl |-> l - tl + Word,
                        qh |-> qh, ql |-> ql + 1]
                  ELSE [j |-> st.j + 1, rh |-> h - th, rl |-> l - tl,
                        qh |-> qh, ql |-> ql + 1])
            ELSE [j |-> st.j + 1, rh |-> h, rl |-> l, qh |-> qh, ql |-> ql]
      IN Step(4 * st.rh + (st.rl \div 67108864),
              (st.rl % 67108864) * 4
              + (IF st.j < 14 THEN (n3 \div 4^(13 - st.j)) % 4
                 ELSE IF st.j < 28 THEN (n2 \div 4^(27 - st.j)) % 4 ELSE 0),
              4 * st.qh + (st.ql \div 67108864),
              (st.ql % 67108864) * 4 + 1,
              2 * st.qh + ((2 * st.ql) \div Word),
              (2 * st.ql) % Word)
  IN IF st.j = last THEN st ELSE SqrtBits(n3, n2, Bit, last)

\* sqrt(x) for x >= 0: the root of the mantissa times 2^58 or 2^59, of the
\* parity of x.e, has 56 bits
FSqrt(x) ==
  LET Root(q, e) == FPack(1, q[1], q[2], e)
      \* the 56 bits of the root, the last one set when the remainder is not 0
      Mantissa(n3, n2) ==
        LET Rounded(st) ==
              <<st.qh, Sticky(st.ql, IF st.rh # 0 THEN TRUE ELSE st.rl # 0)>>
            Start == [j |-> 0, rh |-> 0, rl |-> 0, qh |-> 0, ql |-> 0]
        IN Rounded(SqrtBits(n3, n2,
             SqrtBits(n3, n2, SqrtBits(n3, n2, SqrtBits(n3, n2, Start, 14), 28), 42),
             56))
      \* the mantissa times 2^k, k of the parity of x.e
      Even(k) ==
        Root(Mantissa(x.h * 2^k + (x.l \div 2^(28 - k)), (x.l % 2^(28 - k)) * 2^k),
             (x.e - 56 - k) \div 2)
  IN IF x.s = 0 THEN FZero ELSE Even(IF x.e % 2 = 0 THEN 2 ELSE 3)

\* the double nearest to n / d, d # 0
FRatio(n, d) == FDiv(FInt(n), FInt(d))

\* 1.0
FOne == [s |-> 1, h |-> 16777216, l |-> 0, e |-> -52]

\* Python's min(x, y) and max(x, y), np.maximum(x, y)
FMin(x, y) == IF FLt(y, x) THEN y ELSE x
FMax(x, y) == IF FGt(y, x) THEN y ELSE x

\* x / y of Python floats: the quotient, or the exception raised for y = 0
ZeroDivisionError == [raises |-> "ZeroDivisionError"]
TrueDivide(x, y) == IF y.s = 0 THEN ZeroDivisionError ELSE FDiv(x, y)

\* res += a[i] for i from lo to hi, one after the other
RECURSIVE AddInOrder(_, _, _, _)
AddInOrder(a, lo, hi, res) ==
  IF lo > hi THEN res ELSE AddInOrder(a, lo + 1, hi, FAdd(res, a[lo]))

\* r += a[i] for i from lo to hi in steps of 8
RECURSIVE AddStrided(_, _, _, _)
AddStrided(a, lo, hi, r) ==
  IF lo > hi THEN r ELSE AddStrided(a, lo + 8, hi, FAdd(r, a[lo]))

\* numpy's pairwise summation of the n elements after a[lo]: fewer than 8
\* are added in order; up to 128 are added into 8 accumulators, element i
\* into accumulator i mod 8, the accumulators are added in pairs and the
\* elements after the last full block of 8 are added in order; more are
\* halved (the first half a multiple of 8) and the two sums added
RECURSIVE PairwiseSum(_, _, _)
PairwiseSum(a, lo, n) ==
  IF n < 8 THEN AddInOrder(a, lo + 1, lo + n, FZero)
  ELSE IF n <= 128
  THEN LET R(k) == AddStrided(a, lo + k + 8, lo + n - (n % 8), a[lo + k])
       IN AddInOrder(a, lo + n - (n % 8) + 1, lo + n,
                     FAdd(FAdd(FAdd(R(1), R(2)), FAdd(R(3), R(4))),
                          FAdd(FAdd(R(5), R(6)), FAdd(R(7), R(8)))))
  ELSE LET Halves(half) ==
             FAdd(PairwiseSum(a, lo, half), PairwiseSum(a, lo + half, n - half))
       IN Halves((n \div 2) - ((n \div 2) % 8))

\* np.add.reduce(a): the identity 0 plus the pairwise sum
NpSum(a) == FAdd(FZero, PairwiseSum(a, 0, Len(a)))

\* np.std(a, ddof=ddof) for 1 < len(a): arrmean = sum(a) / n,
\* x = (a - arrmean)^2, sqrt(sum(x) / (n - ddof))
NpStd(a, ddof) ==
  LET Deviations(arrmean) == ListOf([i \in 1..Len(a) |-> FSub(a[i], arrmean)])
      Squares(x) == ListOf([i \in 1..Len(x) |-> FMul(x[i], x[i])])
  IN FSqrt(FDiv(NpSum(Squares(Deviations(FDiv(NpSum(a), FInt(Len(a)))))),
                FInt(Len(a) - ddof)))

(***************************************************************************)
(* Constants of learning_agent/logic.py.  A float constant is the double   *)
(* its literal denotes; policy deltas are carried in thousandths.          *)
(***************************************************************************)
ASSET_MIN_TRADES_WARMUP == 10
\* 0.08
MAX_DRAWDOWN_THRESHOLD == [s |-> 1, h |-> 21474836, l |-> 128849019, e |-> -56]
CONSECUTIVE_LOSS_THRESHOLD == 3
RECENT_TRADES_WINDOW == 10
RISK_PER_TRADE_ADJUSTMENT == -5

\* 0.70
PERFORMANCE_UPPER_THRESHOLD == [s |-> 1, h |-> 23488102, l |-> 107374182, e |-> -53]
\* 0.45
PERFORMANCE_LOWER_THRESHOLD == [s |-> 1, h |-> 30198988, l |-> 214748365, e |-> -54]
BIAS_ADJUSTMENT_INCREMENT == 50

\* 0.50
WEIGHT_WIN_RATE == [s |-> 1, h |-> 16777216, l |-> 0, e |-> -53]
\* 0.35
WEIGHT_MAX_DRAWDOWN == [s |-> 1, h |-> 23488102, l |-> 107374182, e |-> -54]
\* 0.15
WEIGHT_VOLATILITY == [s |-> 1, h |-> 20132659, l |-> 53687091, e |-> -55]
\* 0.20
MAX_ACCEPTABLE_DRAWDOWN == [s |-> 1, h |-> 26843545, l |-> 161061274, e |-> -55]
\* 0.10
MAX_ACCEPTABLE_VOLATILITY == [s |-> 1, h |-> 26843545, l |-> 161061274, e |-> -56]

(***************************************************************************)
(* Values.  None is the empty tuple and a present value v is <<v>>.  A     *)
(* Decimal (pnl_pct, entry_price, exit_price) is a whole number of         *)
(* 1/PnlScale; a price is a whole number; executed_at, an ISO-8601 string  *)
(* compared as a string, is a natural with the same order.                 *)
(***************************************************************************)
None == <<>>
Some(v) == <<v>>

\* float(d) of a Decimal d of n/PnlScale: the double nearest to it
FloatOfDecimal(n) == FRatio(n, PnlScale)

(***************************************************************************)
(* _calculate_trade_pnl_pct: the trade's own pnl_pct when present, else    *)
(* 0.0 without price history, else derived from the trade's price and the  *)
(* last close, signed by side; the division raises ZeroDivisionError for a *)
(* price of 0.  price_history is the sequence of closes.                   *)
(***************************************************************************)
\* the derivation from the last close preferred to the trade's own pnl_pct
CalculateTradePnlPctFromCloseFirst(trade, price_history) ==
  IF price_history = <<>>
  THEN (IF trade.pnl_pct # None THEN FloatOfDecimal(trade.pnl_pct[1]) ELSE FZero)
  ELSE LET entry_price == FInt(trade.price)
           exit_price == FInt(price_history[Len(price_history)])
       IN IF trade.side = "buy"
          THEN TrueDivide(FSub(exit_price, entry_price), entry_price)
          ELSE TrueDivide(FSub(entry_price, exit_price), entry_price)

CalculateTradePnlPct(trade, price_history) ==
  IF trade.pnl_pct # None THEN FloatOfDecimal(trade.pnl_pct[1])
  ELSE IF price_history = <<>> THEN FZero
  ELSE LET entry_price == FInt(trade.price)
           exit_price == FInt(price_history[Len(price_history)])
       IN IF trade.side = "buy"
          THEN TrueDivide(FSub(exit_price, entry_price), entry_price)
          ELSE IF trade.side = "sell"
          THEN TrueDivide(FSub(entry_price, exit_price), entry_price)
          ELSE FZero

(***************************************************************************)
(* _calculate_asset_performance                                            *)
(***************************************************************************)
\* len([p for p in pnl_pcts if p > 0])
CountWins(pnl_pcts) == Cardinality({i \in 1..Len(pnl_pcts) : FGt(pnl_pcts[i], FZero)})

\* len(wins) / len(pnl_pcts) if pnl_pcts else 0
WinRate(pnl_pcts) ==
  IF pnl_pcts = <<>> THEN FZero
  ELSE FRatio(CountWins(pnl_pcts), Len(pnl_pcts))

\* [1 + p for p in pnl_pcts]
Factors(pnl_pcts) == ListOf([i \in 1..Len(pnl_pcts) |-> FAdd(FOne, pnl_pcts[i])])

\* np.cumprod(factors): element k is element k - 1 times factors[k];
\* cumprod holds the elements computed so far
RECURSIVE CumProdFrom(_, _)
CumProdFrom(factors, cumprod) ==
  IF Len(cumprod) = Len(factors) THEN cumprod
  ELSE CumProdFrom(factors,
                   Append(cumprod,
                          FMul(cumprod[Len(cumprod)], factors[Len(cumprod) + 1])))

CumProd(factors) ==
  IF factors = <<>> THEN <<>> ELSE CumProdFrom(factors, <<factors[1]>>)

\* the cumulative product without the initial capital
CumProdAlone(pnl_pcts) == CumProd(Factors(pnl_pcts))

\* np.insert(np.cumprod([1 + p for p in pnl_pcts]), 0, 1.0)
EquityCurve(pnl_pcts) == <<FOne>> \o CumProd(Factors(pnl_pcts))

\* np.maximum.accumulate: peak holds the elements computed so far
RECURSIVE MaximumAccumulateFrom(_, _)
MaximumAccumulateFrom(curve, peak) ==
  IF Len(peak) = Len(curve) THEN peak
  ELSE MaximumAccumulateFrom(curve,
                             Append(peak, FMax(peak[Len(peak)],
                                               curve[Len(peak) + 1])))

MaximumAccumulate(curve) == MaximumAccumulateFrom(curve, <<curve[1]>>)

\* (equity_curve - peak) / peak; peak is 1.0 or more
DrawdownOver(equity_curve, peak) ==
  ListOf([i \in 1..Len(equity_curve) |->
            FDiv(FSub(equity_curve[i], peak[i]), peak[i])])

\* peak = np.maximum.accumulate(equity_curve); drawdown = (equity_curve - peak) / peak
DrawdownCurve(equity_curve) ==
  DrawdownOver(equity_curve, MaximumAccumulate(equity_curve))

\* np.min of xs[i..], least the minimum of the elements before
RECURSIVE NpMinFrom(_, _, _)
NpMinFrom(xs, i, least) ==
  IF i > Len(xs) THEN least
  ELSE IF FLt(xs[i], least) THEN NpMinFrom(xs, i + 1, xs[i])
  ELSE NpMinFrom(xs, i + 1, least)

\* abs(np.min(drawdown[1:])) if len(drawdown) > 1 else 0
LargestDrawdown(drawdown) ==
  IF Len(drawdown) > 1 THEN FAbs(NpMinFrom(drawdown, 3, drawdown[2])) ELSE FZero

MaxDrawdown(pnl_pcts) ==
  IF pnl_pcts = <<>> THEN FZero
  ELSE LargestDrawdown(DrawdownCurve(EquityCurve(pnl_pcts)))

\* the metrics dictionary; volatility is np.std(pnl_pcts) if len(pnl_pcts) > 1
\* else 0, and numpy's default standard deviation divides by n (ddof = 0)
CalculateAssetPerformance(trades, pnl_pcts) ==
  [win_rate |-> WinRate(pnl_pcts),
   max_drawdown |-> MaxDrawdown(pnl_pcts),
   volatility |-> IF Len(pnl_pcts) > 1 THEN NpStd(pnl_pcts, 0) ELSE FZero,
   trade_count |-> Len(trades)]

(***************************************************************************)
(* The performance score of run_learning_cycle:                            *)
(*   wr_score  = win_rate                                                  *)
(*   mdd_score = 1.0 - min(1.0, max_drawdown / MAX_ACCEPTABLE_DRAWDOWN)    *)
(*   vol_score = 1.0 - min(1.0, volatility / MAX_ACCEPTABLE_VOLATILITY)    *)
(*   score     = (W_wr * wr_score) + (W_mdd * mdd_score)                   *)
(*               + (W_vol * vol_score)                                     *)
(***************************************************************************)
MddScore(perf) ==
  FSub(FOne, FMin(FOne, FDiv(perf.max_drawdown, MAX_ACCEPTABLE_DRAWDOWN)))

VolScore(perf) ==
  FSub(FOne, FMin(FOne, FDiv(perf.volatility, MAX_ACCEPTABLE_VOLATILITY)))

PerformanceScore(perf) ==
  FAdd(FAdd(FMul(WEIGHT_WIN_RATE, perf.win_rate),
            FMul(WEIGHT_MAX_DRAWDOWN, MddScore(perf))),
       FMul(WEIGHT_VOLATILITY, VolScore(perf)))

\* the thresholds taken as >= and <=
BiasDeltaInclusive(performance_score) ==
  IF ~FLt(performance_score, PERFORMANCE_UPPER_THRESHOLD)
  THEN BIAS_ADJUSTMENT_INCREMENT
  ELSE IF ~FGt(performance_score, PERFORMANCE_LOWER_THRESHOLD)
       THEN -BIAS_ADJUSTMENT_INCREMENT
       ELSE 0

\* bias_delta of run_learning_cycle, in thousandths; 0 is "no entry"
BiasDelta(performance_score) ==
  IF FGt(performance_score, PERFORMANCE_UPPER_THRESHOLD) THEN BIAS_ADJUSTMENT_INCREMENT
  ELSE IF FLt(performance_score, PERFORMANCE_LOWER_THRESHOLD) THEN -BIAS_ADJUSTMENT_INCREMENT
  ELSE 0

(***************************************************************************)
(* The request and the response.                                           *)
(*   Trade: [obj, trade_id, asset_id, side, price, executed_at, pnl_pct,   *)
(*           entry_price, exit_price]; the last three are Optional.  obj   *)
(*           is the identity of the Trade object: a list that holds one    *)
(*           object several times (the tests build [trade] * 10) has the   *)
(*           same obj at each of these indices.                            *)
(*   execution_result: None or a dict over the keys status, pnl_pct,       *)
(*           entry_price, exit_price.  A key is absent (Absent), holds a   *)
(*           number (Num(v)) or holds a value whose str() is no decimal    *)
(*           literal (Malformed), such as None or "n/a".  status is None   *)
(*           when the key is absent, else <<string>>.                      *)
(*   price_history: asset id -> sequence of closes (<<>> for a missing     *)
(*           key: request.price_history.get(asset_id, [])).                *)
(*   LearningResponse: [learning_state, policy_deltas, reasoning]; a       *)
(*           reasoning string is [kind, asset, trade], the sentence it     *)
(*           instantiates and the asset or trade id it names.              *)
(***************************************************************************)
Absent == [tag |-> "absent"]
Num(v) == [tag |-> "num", v |-> v]
Malformed == [tag |-> "malformed"]

NoAsset == ""
NoTrade == 0
Reason(kind, asset, trade) == [kind |-> kind, asset |-> asset, trade |-> trade]

\* PolicyDeltas(): every dictionary empty
PolicyDeltas == [asset_biases |-> <<>>, risk |-> <<>>]

\* bool(execution_result): None and the empty dict are false
ExecutionResultTruthy(er) ==
  /\ er # None
  /\ \/ er[1].status # None
     \/ er[1].pnl_pct.tag # "absent"
     \/ er[1].entry_price.tag # "absent"
     \/ er[1].exit_price.tag # "absent"

\* Sorting by a key, descending, as list.sort(key=..., reverse=True) and
\* sorted(..., key=..., reverse=True) do; greater[j][i] tells whether key j is
\* greater than key i.  The item at index i comes after the items with a
\* greater key and, the sort being stable, after the items with an equal key
\* that stand before it.
SortedPosition(greater, i) ==
  Cardinality({j \in DOMAIN greater :
                 greater[j][i] \/ (~greater[i][j] /\ j < i)}) + 1

\* the pairs <<position in the sorted list, index in the list>>
SortOrder(greater) == {<<SortedPosition(greater, i), i>> : i \in DOMAIN greater}

Permuted(items, order) ==
  ListOf([k \in 1..Len(items) |-> items[(CHOOSE p \in order : p[1] = k)[2]]])

\* the items in the order given, whatever their keys
ItemsAsGiven(items, keys) == ListOf(items)

\* keys that are whole numbers
SortDesc(items, keys) ==
  Permuted(items, SortOrder([j \in 1..Len(keys) |->
                               [i \in 1..Len(keys) |-> keys[j] > keys[i]]]))

\* keys that are floats
SortFloatsDesc(items, keys) ==
  Permuted(items, SortOrder([j \in 1..Len(keys) |->
                               [i \in 1..Len(keys) |-> FGt(keys[j], keys[i])]]))

ExecutedAt(trades) == ListOf([i \in 1..Len(trades) |-> trades[i].executed_at])

\* the list as the caller ordered it
TradesAsListed(trades) == ListOf(trades)

\* the list turned round
TradesReversed(trades) ==
  ListOf([i \in 1..Len(trades) |-> trades[Len(trades) + 1 - i]])

\* request.trade_history.sort(key=lambda t: t.executed_at, reverse=True)
SortTradesByExecutedAtDesc(trades) == SortDesc(trades, ExecutedAt(trades))

(***************************************************************************)
(* Pre-processing of run_learning_cycle: merge execution_result into the   *)
(* latest trade.  Decimal(str(x)) raises decimal.InvalidOperation for a    *)
(* malformed x; nothing in run_learning_cycle catches it, so the call      *)
(* ends there, with the in-place changes made so far.                      *)
(* Result: [trade_history, raised, merged], merged the trade id named by   *)
(* the reasoning string, or NoTrade.                                       *)
(***************************************************************************)
\* Decimal(str(x)) of a present value: the number, or the exception
DecimalOfStr(field) == IF field.tag = "num" THEN Some(field.v) ELSE None

\* if key in request.execution_result:
\*     latest_trade.<key> = Decimal(str(request.execution_result[key]))
MergeStep(state, key, er) ==
  IF state.raised \/ er[key].tag = "absent" THEN state
  ELSE IF DecimalOfStr(er[key]) = None THEN [state EXCEPT !.raised = TRUE]
  ELSE [state EXCEPT !.latest_trade[key] = DecimalOfStr(er[key])]

\* the three assignments to latest_trade, in the order of the code
MergeSteps(latest_trade, er) ==
  MergeStep(MergeStep(MergeStep([latest_trade |-> latest_trade, raised |-> FALSE],
                                "pnl_pct", er),
                      "entry_price", er),
            "exit_price", er)

\* latest_trade is the object at sorted[1], changed in place: every index of
\* the list that holds this object shows the change
Merged(sorted, state) ==
  [trade_history |->
     ListOf([i \in 1..Len(sorted) |->
               IF sorted[i].obj = sorted[1].obj THEN state.latest_trade
               ELSE sorted[i]]),
   raised |-> state.raised,
   merged |-> IF state.raised THEN NoTrade ELSE state.latest_trade.trade_id]

MergeIntoLatest(sorted, er) == Merged(sorted, MergeSteps(sorted[1], er))

MergeExecutionResult(trade_history, execution_result) ==
  IF ExecutionResultTruthy(execution_result) /\ trade_history # <<>>
     /\ execution_result[1].status = Some("executed")
  THEN MergeIntoLatest(SortTradesByExecutedAtDesc(trade_history), execution_result[1])
  ELSE [trade_history |-> trade_history, raised |-> FALSE, merged |-> NoTrade]

(***************************************************************************)
(* Grouping: trades_by_asset is a dict filled in list order, so the assets *)
(* are visited in order of first appearance.                               *)
(***************************************************************************)
AssetIds(trades) == {trades[i].asset_id : i \in 1..Len(trades)}

FirstIndex(trades, asset_id) ==
  CHOOSE i \in 1..Len(trades) :
    /\ trades[i].asset_id = asset_id
    /\ \A j \in 1..(i - 1) : trades[j].asset_id # asset_id

\* the pairs <<index of the asset's first trade, asset id>>
FirstIndices(trades) == {<<FirstIndex(trades, a), a>> : a \in AssetIds(trades)}

\* the asset id of the k-th pair by index
KeyAt(first_indices, k) ==
  (CHOOSE p \in first_indices :
     Cardinality({q \in first_indices : q[1] < p[1]}) = k - 1)[2]

KeysInOrder(first_indices) ==
  [k \in 1..Cardinality(first_indices) |-> KeyAt(first_indices, k)]

\* list(trades_by_asset.keys())
AssetOrder(trades) == KeysInOrder(FirstIndices(trades))

\* trades_by_asset[asset_id]
TradesByAsset(trades, asset_id) ==
  SelectSeq(trades, LAMBDA trade : trade.asset_id = asset_id)

(***************************************************************************)
(* The body of the loop `for asset_id, trades in trades_by_asset.items()`  *)
(* of run_learning_cycle.  A frame holds what the loop carries from one    *)
(* asset to the next (asset_biases, reasoning, assets_in_warmup,           *)
(* global_risk_adjustment_needed, and perf and performance_score, which    *)
(* map each asset scored so far to the value the local of that name had)   *)
(* and the locals of the asset at hand.  Each section of the body is a     *)
(* step from frame to frame.  raised tells that the iteration ended with   *)
(* an exception (the ZeroDivisionError of _calculate_trade_pnl_pct, which  *)
(* nothing in run_learning_cycle catches): the call ends there.            *)
(***************************************************************************)
PnlPcts(trades, asset_price_history) ==
  ListOf([i \in 1..Len(trades) |->
            CalculateTradePnlPct(trades[i], asset_price_history)])

\* dict[key] = value
SetItem(dict, key, value) == (key :> value) @@ dict

NewLoop(reasoning) ==
  [asset_biases |-> <<>>, reasoning |-> reasoning,
   global_risk_adjustment_needed |-> FALSE, assets_in_warmup |-> 0,
   perf |-> <<>>, performance_score |-> <<>>,
   asset_id |-> NoAsset, trades |-> <<>>, pnl_pcts |-> <<>>, bias_delta |-> 0,
   sorted_trades_and_pnl |-> <<>>, recent_trades |-> <<>>, recent_pnl |-> <<>>,
   consecutive_losses |-> 0, recent_perf |-> <<>>, visited |-> 0,
   raised |-> FALSE]

\* the asset is in warmup: count it and continue
Warmup(f) ==
  [f EXCEPT !.assets_in_warmup = @ + 1,
            !.reasoning = Append(@, Reason("warmup", f.asset_id, NoTrade))]

\* --- P/L Calculation ---: the list comprehension ends with the exception
\* raised for one of the trades, or its list is assigned
PnlCalculation(f, asset_price_history) ==
  LET Assigned(pnl_pcts) ==
        IF \E i \in 1..Len(pnl_pcts) : pnl_pcts[i] = ZeroDivisionError
        THEN [f EXCEPT !.raised = TRUE]
        ELSE [f EXCEPT !.pnl_pcts = pnl_pcts]
  IN Assigned(PnlPcts(f.trades, asset_price_history))

\* --- Performance and Scoring ---: perf
Performance(f) ==
  [f EXCEPT !.perf = SetItem(@, f.asset_id,
                             CalculateAssetPerformance(f.trades, f.pnl_pcts))]

\* --- Performance and Scoring ---: performance_score
Scoring(f) ==
  [f EXCEPT !.performance_score =
              SetItem(@, f.asset_id, PerformanceScore(f.perf[f.asset_id]))]

\* bias_delta from the thresholds
BiasDecision(f) ==
  [f EXCEPT !.bias_delta = BiasDelta(f.performance_score[f.asset_id])]

\* the reasoning entry of the branch taken, and
\* if bias_delta != 0.0: response.policy_deltas.asset_biases[asset_id] = bias_delta
BiasApplication(f) ==
  IF f.bias_delta = 0 THEN f
  ELSE [f EXCEPT !.asset_biases = SetItem(@, f.asset_id, f.bias_delta),
                 !.reasoning =
                    Append(@, Reason(IF f.bias_delta > 0 THEN "positive_bias"
                                     ELSE "negative_bias", f.asset_id, NoTrade))]

(***************************************************************************)
(* Drawdown clustering detection over the RECENT_TRADES_WINDOW most recent *)
(* trades of an asset, most recent first.                                  *)
(***************************************************************************)
\* sorted(zip(trades, pnl_pcts), key=lambda x: x[0].executed_at, reverse=True):
\* the pairs <<trade, pnl>>
SortedTradesAndPnl(trades, pnl_pcts) ==
  SortDesc([i \in 1..Len(trades) |-> <<trades[i], pnl_pcts[i]>>], ExecutedAt(trades))

\* [tp[k] for tp in sorted_trades_and_pnl[:RECENT_TRADES_WINDOW]], k = 1, 2 for
\* Python's tp[0], tp[1]
Recent(sorted_trades_and_pnl, k) ==
  ListOf([i \in 1..(IF Len(sorted_trades_and_pnl) > RECENT_TRADES_WINDOW
                    THEN RECENT_TRADES_WINDOW ELSE Len(sorted_trades_and_pnl)) |->
            sorted_trades_and_pnl[i][k]])

RecentTrades(sorted_trades_and_pnl) == Recent(sorted_trades_and_pnl, 1)
RecentPnl(sorted_trades_and_pnl) == Recent(sorted_trades_and_pnl, 2)

SortRecent(f) ==
  [f EXCEPT !.sorted_trades_and_pnl = SortedTradesAndPnl(f.trades, f.pnl_pcts)]

RecentWindow(f) ==
  [f EXCEPT !.recent_trades = RecentTrades(f.sorted_trades_and_pnl),
            !.recent_pnl = RecentPnl(f.sorted_trades_and_pnl)]

\* the loop without `else: consecutive_losses = 0`
RECURSIVE ConsecutiveLossesFromWithoutReset(_, _, _)
ConsecutiveLossesFromWithoutReset(recent_pnl, i, consecutive_losses) ==
  IF i > Len(recent_pnl) THEN consecutive_losses
  ELSE IF FLt(recent_pnl[i], FZero)
       THEN IF consecutive_losses + 1 >= CONSECUTIVE_LOSS_THRESHOLD
            THEN consecutive_losses + 1
            ELSE ConsecutiveLossesFromWithoutReset(recent_pnl, i + 1,
                                                   consecutive_losses + 1)
       ELSE ConsecutiveLossesFromWithoutReset(recent_pnl, i + 1, consecutive_losses)

\* for pnl in recent_pnl, from element i on: consecutive_losses when the
\* loop breaks or ends
RECURSIVE ConsecutiveLossesFrom(_, _, _)
ConsecutiveLossesFrom(recent_pnl, i, consecutive_losses) ==
  IF i > Len(recent_pnl) THEN consecutive_losses
  ELSE IF FLt(recent_pnl[i], FZero)
       THEN IF consecutive_losses + 1 >= CONSECUTIVE_LOSS_THRESHOLD
            THEN consecutive_losses + 1
            ELSE ConsecutiveLossesFrom(recent_pnl, i + 1, consecutive_losses + 1)
       ELSE ConsecutiveLossesFrom(recent_pnl, i + 1, 0)

\* # Check for consecutive losses
ConsecutiveLosses(f) ==
  [f EXCEPT !.consecutive_losses = ConsecutiveLossesFrom(f.recent_pnl, 1, 0)]

\* recent_perf = _calculate_asset_performance(recent_trades, recent_pnl)
RecentPerformance(f) ==
  [f EXCEPT !.recent_perf = CalculateAssetPerformance(f.recent_trades, f.recent_pnl)]

\* the reasoning entry without global_risk_adjustment_needed = True
FlagForRiskReviewWithoutFlag(f, kind, flagged) ==
  IF flagged
  THEN [f EXCEPT !.reasoning = Append(@, Reason(kind, f.asset_id, NoTrade))]
  ELSE f

\* global_risk_adjustment_needed = True, with the reasoning entry
FlagForRiskReview(f, kind, flagged) ==
  IF flagged
  THEN [f EXCEPT !.global_risk_adjustment_needed = TRUE,
                 !.reasoning = Append(@, Reason(kind, f.asset_id, NoTrade))]
  ELSE f

\* if consecutive_losses >= CONSECUTIVE_LOSS_THRESHOLD
ConsecutiveLossCheck(f) ==
  FlagForRiskReview(f, "consecutive_losses",
                    f.consecutive_losses >= CONSECUTIVE_LOSS_THRESHOLD)

\* if recent_perf["max_drawdown"] > MAX_DRAWDOWN_THRESHOLD
RecentDrawdownCheck(f) ==
  FlagForRiskReview(f, "high_recent_drawdown",
                    FGt(f.recent_perf.max_drawdown, MAX_DRAWDOWN_THRESHOLD))

\* --- Performance and Scoring ---, when the P/L calculation returned
Score(f) ==
  IF f.raised THEN f
  ELSE BiasApplication(BiasDecision(Scoring(Performance(f))))

\* --- Drawdown Clustering Detection ---, when the P/L calculation returned
DetectClustering(f) ==
  IF f.raised THEN f
  ELSE RecentDrawdownCheck(RecentPerformance(ConsecutiveLossCheck(
         ConsecutiveLosses(RecentWindow(SortRecent(f))))))

\* for asset_id, trades in trades_by_asset.items(): the next item
NextItem(loop, asset_id, trades) ==
  [loop EXCEPT !.asset_id = asset_id, !.trades = trades, !.visited = @ + 1]

\* one iteration, the warmup branch falling through to the scoring
AssetStepWithoutContinue(loop, asset_id, trades, asset_price_history) ==
  DetectClustering(Score(
    PnlCalculation(IF Len(trades) < ASSET_MIN_TRADES_WARMUP
                   THEN Warmup(NextItem(loop, asset_id, trades))
                   ELSE NextItem(loop, asset_id, trades),
                   asset_price_history)))

\* one iteration, the warmup branch skipping the scoring only
AssetStepWithClusteringInWarmup(loop, asset_id, trades, asset_price_history) ==
  IF Len(trades) < ASSET_MIN_TRADES_WARMUP
  THEN DetectClustering(PnlCalculation(Warmup(NextItem(loop, asset_id, trades)),
                                       asset_price_history))
  ELSE DetectClustering(Score(PnlCalculation(NextItem(loop, asset_id, trades),
                                             asset_price_history)))

\* one iteration
AssetStep(loop, asset_id, trades, asset_price_history) ==
  IF Len(trades) < ASSET_MIN_TRADES_WARMUP
  THEN Warmup(NextItem(loop, asset_id, trades))
  ELSE DetectClustering(Score(PnlCalculation(NextItem(loop, asset_id, trades),
                                             asset_price_history)))

\* the loop, from the item after the loop.visited items visited so far, to
\* its end or to the iteration that raised
RECURSIVE AssetLoop(_, _, _, _)
AssetLoop(loop, order, trade_history, price_history) ==
  IF loop.raised THEN loop
  ELSE IF loop.visited = Len(order) THEN loop
  ELSE AssetLoop(AssetStep(loop, order[loop.visited + 1],
                           TradesByAsset(trade_history, order[loop.visited + 1]),
                           price_history[order[loop.visited + 1]]),
                 order, trade_history, price_history)

(***************************************************************************)
(* run_learning_cycle(request): [trade_history, raised, response, perf,    *)
(* performance_score], the request's trade list as the call leaves it,     *)
(* whether the call raised (decimal.InvalidOperation in the merge,         *)
(* ZeroDivisionError in the loop), the LearningResponse (None when it      *)
(* raised) and                                                             *)
(* the locals perf and performance_score of each asset the loop scored.    *)
(***************************************************************************)
\* the early return without its reasoning entry
InsufficientDataWithoutReasoning(pre) ==
  [trade_history |-> pre.trade_history, raised |-> FALSE,
   perf |-> <<>>, performance_score |-> <<>>,
   response |-> Some([learning_state |-> "insufficient_data",
                      policy_deltas |-> PolicyDeltas,
                      reasoning |-> <<>>])]

\* if not request.trade_history: ... return response
InsufficientData(pre) ==
  [trade_history |-> pre.trade_history, raised |-> FALSE,
   perf |-> <<>>, performance_score |-> <<>>,
   response |-> Some([learning_state |-> "insufficient_data",
                      policy_deltas |-> PolicyDeltas,
                      reasoning |-> <<Reason("no_trades", NoAsset, NoTrade)>>])]

\* if assets_in_warmup == len(trades_by_asset): warmup, else success
LearningStateAnyWarmup(assets_in_warmup, groups) ==
  IF assets_in_warmup > 0 THEN "warmup" ELSE "success"

LearningState(assets_in_warmup, groups) ==
  IF assets_in_warmup = groups THEN "warmup" ELSE "success"

\* the exception of the loop leaves the call: no response
Propagated(pre, loop) ==
  [trade_history |-> pre.trade_history, raised |-> TRUE, response |-> None,
   perf |-> loop.perf, performance_score |-> loop.performance_score]

\* after the loop: the global risk delta, the learning state, the reasoning
EndOfCycle(pre, order, loop) ==
  IF loop.raised THEN Propagated(pre, loop)
  ELSE
  [trade_history |-> pre.trade_history, raised |-> FALSE,
   perf |-> loop.perf, performance_score |-> loop.performance_score,
   response |->
     Some([learning_state |-> LearningState(loop.assets_in_warmup, Len(order)),
           policy_deltas |->
             [asset_biases |-> loop.asset_biases,
              risk |-> IF loop.global_risk_adjustment_needed
                       THEN [k \in {"risk_per_trade"} |-> RISK_PER_TRADE_ADJUSTMENT]
                       ELSE <<>>],
           reasoning |->
             IF loop.global_risk_adjustment_needed
             THEN Append(loop.reasoning,
                         Reason("global_risk_reduction", NoAsset, NoTrade))
             ELSE loop.reasoning])]

\* the loop over trades_by_asset.items(), order its keys
GroupAndScore(pre, order, price_history) ==
  EndOfCycle(pre, order,
             AssetLoop(NewLoop(IF pre.merged # NoTrade
                               THEN <<Reason("merged_execution_result", NoAsset,
                                             pre.merged)>>
                               ELSE <<>>),
                       order, pre.trade_history, price_history))

AfterPreProcessing(pre, price_history) ==
  IF pre.raised
  THEN [trade_history |-> pre.trade_history, raised |-> TRUE, response |-> None,
        perf |-> <<>>, performance_score |-> <<>>]
  ELSE IF pre.trade_history = <<>> THEN InsufficientData(pre)
  ELSE GroupAndScore(pre, AssetOrder(pre.trade_history), price_history)

RunLearningCycleResult(trade_history, execution_result, price_history) ==
  AfterPreProcessing(MergeExecutionResult(trade_history, execution_result),
                     price_history)

(***************************************************************************)
(* State.  One LearningRequest object and the calls made with it.          *)
(*   trade_history, execution_result, price_history: the request's fields  *)
(*   BIAS_STATE: the stored per-asset bias triples (database.py), which    *)
(*       run_learning_cycle neither receives nor reads                     *)
(*   listing: how the caller stamps the trades it lists                    *)
(*   blocks: the number of batches of trades added to the request          *)
(*   calls: the number of run_learning_cycle calls made with the request   *)
(*   called_with: request.trade_history as the last call received it       *)
(*   response, raised: the last call's LearningResponse (None before the   *)
(*       first call and when the call raised) and whether it raised        *)
(*   perf, performance_score: the last call's locals of those names, for   *)
(*       each asset its loop scored                                        *)
(***************************************************************************)
VARIABLES trade_history, execution_result, price_history, BIAS_STATE, listing,
          blocks, calls, called_with, response, raised, perf, performance_score

\* The functions that keep no state between calls (the trade history client,
\* the standalone analyzer, the regime classifiers), one call of one of them:
\*   invoked: None, or <<the call>>, a record of the function called, its
\*       arguments and what its environment does
\*   outcome: None until the call ends, then <<what it returned or raised>>
VARIABLES invoked, outcome

\* The Bias Store and its update operation.  BIAS_STATE above is the copy in
\* memory.
\*   persisted: for each asset None, or <<the triple of its row>>
\*   workers: the workers that serve update requests
\*   request: for each worker None, or <<[asset_id, delta, current]>>, the
\*       update it is serving and the triple it read
\*   updated: None, or <<the last response of an update>>
\*   tenths: for each asset the number of updates applied to it when each of
\*       them added 0.1 to bull_bias only, -1 after any other update
\*   updates: the number of update requests received
VARIABLES persisted, workers, request, updated, tenths, updates

\* The database behind the API and the GET /bias endpoint.
\*   strategies: the rows of the table strategies, [id, strategy_name]
\*   learning_results: the rows of the table learning_results in the order
\*       they were inserted, [strategy_id, bias_adjustment, risk_level,
\*       market_regime, confidence, created_at]; a row's position stands for
\*       its id, a fresh uuid
\*   bias_response: None, or <<the last response of GET /bias>>, [strategy,
\*       status_code, body]: the query parameter, the status code and None or
\*       <<the BiasResponse>>
VARIABLES strategies, learning_results, bias_response

\* the request of a learning cycle and the calls made with it
cycle == <<trade_history, execution_result, price_history, BIAS_STATE, listing,
           blocks, calls, called_with, response, raised, perf, performance_score>>

vars == <<cycle, invoked, outcome, persisted, workers, request, updated, tenths,
          updates, strategies, learning_results, bias_response>>

\* what a step of one component leaves alone of the others
others == <<invoked, outcome, persisted, workers, request, updated, tenths, updates,
            strategies, learning_results, bias_response>>

MaxBlocks == 3
MaxTrades == 23
MaxAssetTrades == 13
MaxCalls == 2

Assets == {"A", "B"}

\* BiasState defaults (schemas.py) and load_bias_state's default factory;
\* a bias is a whole number of 1/PnlScale
DefaultBias == [bull_bias |-> 0, bear_bias |-> 0, vol_bias |-> 0]

\* the other components before their first call
Idle ==
  /\ invoked = <<>>
  /\ outcome = <<>>
  /\ persisted = [a \in Assets |-> <<>>]
  /\ workers = {}
  /\ request = <<>>
  /\ updated = <<>>
  /\ tenths = [a \in Assets |-> 0]
  /\ updates = 0
  /\ strategies = {}
  /\ learning_results = <<>>
  /\ bias_response = <<>>

\* executed_at of the trade at list position pos
StampAt(how, pos) ==
  IF how = "oldest_first" THEN pos
  ELSE IF how = "newest_first" THEN MaxTrades + 1 - pos
  ELSE IF how = "pairs_swapped" THEN (IF pos % 2 = 1 THEN pos + 1 ELSE pos - 1)
  ELSE 1

\* A batch of b.count trades of one asset.  Trade k of the batch takes its
\* pnl_pct from b.pnls, repeated as often as needed.  b.ids = "fresh": every
\* trade has its own id and stamp; "repeated": the batch lists one trade
\* b.count times.
NewTrade(b, k, pos) ==
  [obj |-> IF b.ids = "fresh" THEN pos ELSE pos - k + 1,
   trade_id |-> IF b.ids = "fresh" THEN pos ELSE pos - k + 1,
   asset_id |-> b.asset_id,
   side |-> b.side,
   price |-> b.price,
   executed_at |-> StampAt(listing, IF b.ids = "fresh" THEN pos ELSE pos - k + 1),
   pnl_pct |-> b.pnls[((k - 1) % Len(b.pnls)) + 1],
   entry_price |-> None,
   exit_price |-> None]

\* the caller appends trades to request.trade_history
AddTrades(b) ==
  /\ calls = 0
  /\ blocks < MaxBlocks
  /\ Len(trade_history) + b.count <= MaxTrades
  /\ Len(TradesByAsset(trade_history, b.asset_id)) + b.count <= MaxAssetTrades
  /\ trade_history' = trade_history
        \o [k \in 1..b.count |-> NewTrade(b, k, Len(trade_history) + k)]
  /\ blocks' = blocks + 1
  /\ UNCHANGED <<execution_result, price_history, BIAS_STATE, listing, calls,
                 called_with, response, raised, perf, performance_score>>
  /\ UNCHANGED others

\* the caller sets request.execution_result
SetExecutionResult(er) ==
  /\ calls = 0
  /\ execution_result = None
  /\ execution_result' = Some(er)
  /\ UNCHANGED <<trade_history, price_history, BIAS_STATE, listing, blocks, calls,
                 called_with, response, raised, perf, performance_score>>
  /\ UNCHANGED others

\* the call returns (or raises): r is its RunLearningCycleResult
Return(r) ==
  /\ trade_history' = r.trade_history
  /\ response' = r.response
  /\ raised' = r.raised
  /\ perf' = r.perf
  /\ performance_score' = r.performance_score

\* response = run_learning_cycle(request)
RunLearningCycle ==
  /\ calls < MaxCalls
  /\ Return(RunLearningCycleResult(trade_history, execution_result, price_history))
  /\ called_with' = trade_history
  /\ calls' = calls + 1
  /\ UNCHANGED <<execution_result, price_history, BIAS_STATE, listing, blocks>>
  /\ UNCHANGED others

InitRequest ==
  /\ trade_history = <<>>
  /\ execution_result = None
  /\ blocks = 0
  /\ calls = 0
  /\ called_with = <<>>
  /\ response = None
  /\ raised = FALSE
  /\ perf = <<>>
  /\ performance_score = <<>>

Batch(asset_id, pnls, count) ==
  [asset_id |-> asset_id, side |-> "buy", price |-> 100,
   pnls |-> [k \in 1..Len(pnls) |-> Some(pnls[k])], count |-> count, ids |-> "fresh"]

NoPriceHistory == [a \in Assets |-> <<>>]

(***************************************************************************)
(* Spec: requests over two assets without execution_result.  The batches   *)
(* make an asset eligible (10 or more trades) or leave it in warmup, with  *)
(* wins, break-even trades, small losses (three in a row stay under the    *)
(* drawdown threshold, ten do not) and large losses (one exceeds it).      *)
(* Seven break-even trades with six more put a run of three losses inside  *)
(* the window of the ten most recent trades, across its edge or outside    *)
(* it, depending on the order and the listing.                             *)
(* One loss of 8% next to two wins of 1% among ten trades is a drawdown of *)
(* exactly the threshold, which the doubles round to 0.07999999999999996   *)
(* with the loss before the wins and to 0.08000000000000002 with the wins  *)
(* before the loss; three more trades with two losses of 4% deepen it when *)
(* they are inside the window.                                             *)
(***************************************************************************)
Init ==
  /\ InitRequest
  /\ price_history = NoPriceHistory
  /\ BIAS_STATE = [a \in Assets |-> DefaultBias]
  /\ listing \in {"oldest_first", "newest_first"}
  /\ Idle

Next ==
  \/ \E b \in { Batch("A", <<25>>, 10), Batch("A", <<-1>>, 10),
         Batch("A", <<-1, -1, 0, 0, 0, 0, 0, 0, -1, -1>>, 10),
         Batch("A", <<0>>, 7),
         Batch("A", <<-1, -1, -1, 0, 0, 0>>, 6), Batch("A", <<0, 0, -1, -1, -1, 0>>, 6),
         Batch("B", <<-10>>, 9), Batch("B", <<-1>>, 10), Batch("B", <<25>>, 4),
         Batch("B", <<25, -10>>, 10),
         Batch("A", <<0, 0, 0, 0, 0, 0, 0, -8, 1, 1>>, 10),
         Batch("A", <<-4, -4, 0>>, 3) } : AddTrades(b)
  \/ RunLearningCycle

Spec == Init /\ [][Next]_vars

(***************************************************************************)
(* SpecScore: requests whose scores lie at and around the two thresholds   *)
(* (0.5 * 0.7 + 0.35 * 1.0 + 0.15 * 0.0 is the double 0.7, 0.5 * 0.9 the   *)
(* double 0.45, and 0.5 * 0.2 + 0.35 * 1.0 + 0.15 * 0.0 the double next    *)
(* below 0.45),                                                            *)
(* with one asset scored under different stored biases, and a batch that   *)
(* lists one trade ten times (one trade id), as test_pnl_fallback_logic    *)
(* does.  The caller lists the trades oldest first, newest first, or with  *)
(* every two neighbours swapped, which is neither; the last batch has its  *)
(* two losses side by side in the list and apart in time, or the reverse.  *)
(***************************************************************************)
InitScore ==
  /\ InitRequest
  /\ price_history = NoPriceHistory
  /\ \E bias \in { DefaultBias, [DefaultBias EXCEPT !.vol_bias = 40],
         [DefaultBias EXCEPT !.bull_bias = 50] } : BIAS_STATE = [a \in Assets |-> bias]
  /\ listing \in {"oldest_first", "newest_first", "pairs_swapped"}
  /\ Idle

NextScore ==
  \/ \E b \in { Batch("A", <<50, 50, 50, 50, 50, 50, 50, 0, 0, 0>>, 10),
         Batch("A", <<25, 25, 25, 25, 25, 25, 25, 25, 25, -25>>, 10),
         Batch("A", <<50, 50, 0, 0, 0, 0, 0, 0, 0, 0>>, 10),
         Batch("A", <<12, -10>>, 10), Batch("A", <<2>>, 10), Batch("A", <<-10>>, 3),
         Batch("B", <<2>>, 4), [Batch("B", <<12>>, 10) EXCEPT !.ids = "repeated"],
         Batch("A", <<25, -10, -10, 25, 25, 25, 25, 25, 25, 25>>, 10) } : AddTrades(b)
  \/ RunLearningCycle

SpecScore == InitScore /\ [][NextScore]_vars

(***************************************************************************)
(* SpecMerge: short histories, with and without price history, and an      *)
(* execution_result of every shape: executed with all, some or none of the *)
(* three fields, another status, no status, the empty dict, and executed   *)
(* with a malformed field before or after a well-formed one.  One batch    *)
(* makes an asset eligible, with two losses next to its oldest trade;      *)
(* another lists one Trade object ten times, a buy at price 0 without      *)
(* pnl_pct, whose pnl cannot be derived from a close.                      *)
(***************************************************************************)
\* trades without pnl_pct, at the given price
BatchWithoutPnl(asset_id, side, price, count) ==
  [asset_id |-> asset_id, side |-> side, price |-> price, pnls |-> <<None>>,
   count |-> count, ids |-> "fresh"]

SomePriceHistory == [a \in Assets |-> IF a = "A" THEN <<90, 110>> ELSE <<>>]

ExecutionResult(status, pnl_pct, entry_price, exit_price) ==
  [status |-> status, pnl_pct |-> pnl_pct, entry_price |-> entry_price,
   exit_price |-> exit_price]

InitMerge ==
  /\ InitRequest
  /\ price_history \in {NoPriceHistory, SomePriceHistory}
  /\ BIAS_STATE = [a \in Assets |-> DefaultBias]
  /\ listing \in {"oldest_first", "newest_first", "same_time"}
  /\ Idle

NextMerge ==
  \/ \E b \in { Batch("A", <<5>>, 1), BatchWithoutPnl("A", "sell", 100, 2),
         BatchWithoutPnl("B", "buy", 50, 1),
         Batch("A", <<0, -1, -1, 0, 0, 0, 0, 0, 0, 0>>, 10),
         [BatchWithoutPnl("A", "buy", 0, 10) EXCEPT !.ids = "repeated"] } : AddTrades(b)
  \/ \E er \in { ExecutionResult(Some("executed"), Num(7), Num(100), Num(107)),
         ExecutionResult(Some("executed"), Num(-4), Absent, Absent),
         ExecutionResult(Some("executed"), Absent, Num(101), Absent),
         ExecutionResult(Some("executed"), Absent, Absent, Absent),
         ExecutionResult(Some("failed"), Num(7), Num(100), Num(107)),
         ExecutionResult(None, Num(7), Absent, Absent),
         ExecutionResult(None, Absent, Absent, Absent),
         ExecutionResult(Some("executed"), Malformed, Num(100), Absent),
         ExecutionResult(Some("executed"), Num(7), Absent, Malformed) } : SetExecutionResult(er)
  \/ RunLearningCycle

SpecMerge == InitMerge /\ [][NextMerge]_vars

(***************************************************************************)
(* The trade history client: fetch_trade_history (db_agent_client.py).     *)
(* The Database Agent's side of the request is the environment: the        *)
(* request fails in transit, or a response arrives with a status and a     *)
(* body.  A body is Malformed (no JSON) or a JSON value:                   *)
(*   [tag |-> "null"], Num(v) for the number v,                            *)
(*   [tag |-> "str", text |-> text] for a string that writes no number,    *)
(*   [tag |-> "numeral", v |-> n] for the string that writes the number n, *)
(*   [tag |-> "list", items |-> items],                                    *)
(*   [tag |-> "obj", members |-> members].                                 *)
(* An exception is the name of its class.  Calls are tasks of one event    *)
(* loop: a call gives way to the others where it awaits, and may be        *)
(* cancelled there.  It awaits the response (line 31) and, on every way    *)
(* out of the block of async with (line 30), the closing of the client.    *)
(***************************************************************************)
MaxItems == 2

\* Trade(**data) for the members of a JSON object: pydantic validates the
\* type of every field (a str field takes a string only, a Decimal field a
\* number or a string that writes one, side one of its two literals, agents
\* an object of strings), ignores the members Trade does not declare and
\* fills the optional fields with their defaults.  The trade, with Decimals
\* as numbers, or None for a ValidationError.
TradeOf(data) ==
  LET Given(f) == IF f \in DOMAIN data THEN data[f] ELSE Absent
      IsStr(v) == v.tag \in {"str", "numeral"}
      IsDecimal(v) == v.tag \in {"num", "numeral"}
      strs == {"trade_id", "account_id", "asset_id", "symbol", "executed_at"}
      decimals == {"quantity", "price"}
      optional == {"pnl_pct", "entry_price", "exit_price"}
      agents == Given("agents")
  IN IF /\ \A f \in strs : IsStr(Given(f))
        /\ Given("side").tag = "str"
        /\ Given("side").text \in {"buy", "sell"}
        /\ \A f \in decimals : IsDecimal(Given(f))
        /\ \A f \in optional :
             IF Given(f).tag \in {"absent", "null"} THEN TRUE
             ELSE IsDecimal(Given(f))
        /\ IF agents.tag = "obj" THEN \A k \in DOMAIN agents.members : IsStr(agents.members[k])
           ELSE agents.tag = "absent"
     THEN Some([f \in strs \cup {"side", "agents"} \cup decimals \cup optional |->
                  IF f \in strs \cup {"side"} THEN data[f]
                  ELSE IF f \in decimals THEN data[f].v
                  ELSE IF f = "agents"
                    THEN (IF agents.tag = "obj" THEN agents.members ELSE <<>>)
                  ELSE IF IsDecimal(Given(f)) THEN Some(Given(f).v) ELSE None])
     ELSE None

\* what the Database Agent's side can do with one request; TradeItem is an
\* item of the payload that has every field Trade requires; an error status
\* comes with a body of any kind
FetchReplies ==
  LET Str(text) == [tag |-> "str", text |-> text]
      Object(members) == [tag |-> "obj", members |-> members]
      TradeItem(trade_id, asset_id, side, price) ==
        Object([trade_id |-> trade_id, account_id |-> Str("acc"),
                asset_id |-> Str(asset_id), symbol |-> Str(asset_id),
                side |-> Str(side), quantity |-> Num(1), price |-> price,
                executed_at |-> Str("2024-01-01T00:00:00Z")])
      items == { TradeItem(Str("t1"), "A", "buy", Num(100)),
                 TradeItem(Str("t2"), "B", "sell", [tag |-> "numeral", v |-> 100]),
                 TradeItem(Str("t3"), "A", "hold", Num(100)),
                 TradeItem(Str("t5"), "A", "buy", Str("abc")),
                 TradeItem(Num(7), "A", "buy", Num(100)),
                 Object([trade_id |-> Str("t4"), asset_id |-> Str("A"),
                         side |-> Str("buy")]),
                 Str("t6") }
      lists == UNION {[1..n -> items] : n \in 0..MaxItems}
      bodies == {Malformed, [tag |-> "null"], Str(""), Object(<<>>),
                 Object([detail |-> Str("Not Found")])}
      failures == {Malformed, Object([detail |-> Str("Not Found")]),
                   [tag |-> "list", items |-> <<TradeItem(Str("t1"), "A", "buy", Num(100))>>]}
  IN {[kind |-> k, status |-> 0, body |-> [tag |-> "null"]] :
        k \in {"timeout", "connect_error"}}
       \cup {[kind |-> "response", status |-> 200, body |-> b] :
               b \in bodies \cup {[tag |-> "list", items |-> l] : l \in lists}}
       \cup {[kind |-> "response", status |-> st, body |-> b] :
               st \in {404, 500}, b \in failures}

\* the body of the try block from the resumption of client.get on, lines
\* 31-40: the trades, or the exception raised by client.get,
\* raise_for_status, response.json() or the comprehension, which iterates
\* over trade_data (the keys of an object, the characters of a string) and
\* stops at the first item that Trade(**data) does not take: TypeError for
\* an item that is no object, ValidationError for one pydantic rejects
TryFetch(reply) ==
  LET raise(exc) == [exc |-> Some(exc), trades |-> <<>>]
      trade_data == reply.body
      Failure(data) ==
        IF data.tag # "obj" THEN Some("TypeError")
        ELSE IF TradeOf(data.members) = None THEN Some("ValidationError")
        ELSE None
      Comprehension(items) ==
        IF \E i \in 1..Len(items) : Failure(items[i]) # None
        THEN [exc |-> Failure(items[CHOOSE i \in 1..Len(items) :
                                      /\ Failure(items[i]) # None
                                      /\ \A j \in 1..(i - 1) : Failure(items[j]) = None]),
              trades |-> <<>>]
        ELSE [exc |-> None,
              trades |-> ListOf([i \in 1..Len(items) |-> TradeOf(items[i].members)[1]])]
  IN IF reply.kind = "timeout" THEN raise("ReadTimeout")
     ELSE IF reply.kind = "connect_error" THEN raise("ConnectError")
     ELSE IF ~(reply.status >= 200 /\ reply.status <= 299)
       THEN raise("HTTPStatusError")
     ELSE IF trade_data = Malformed THEN raise("JSONDecodeError")
     ELSE IF trade_data.tag = "list" THEN Comprehension(trade_data.items)
     ELSE IF trade_data.tag = "obj"
       THEN (IF DOMAIN trade_data.members = {} THEN [exc |-> None, trades |-> <<>>]
             ELSE raise("TypeError"))
     ELSE IF trade_data.tag = "str"
       THEN (IF trade_data.text = "" THEN [exc |-> None, trades |-> <<>>]
             ELSE raise("TypeError"))
     ELSE raise("TypeError")

\* the except clauses without the last one
CaughtByHttpxClauses(exc) ==
  exc \in {"HTTPStatusError", "ReadTimeout", "ConnectError"}

\* whether one of the three except clauses, lines 42-51, handles exc:
\* httpx.HTTPStatusError, httpx.RequestError (the class of the errors in
\* transit), Exception (the class of every exception raised here but
\* asyncio.CancelledError, a BaseException)
Caught(exc) ==
  \/ exc = "HTTPStatusError"
  \/ exc \in {"ReadTimeout", "ConnectError"}
  \/ exc \in {"HTTPStatusError", "ReadTimeout", "ConnectError", "JSONDecodeError",
              "TypeError", "ValidationError"}

\* fetch_trade_history(asset_id) up to the await of line 31, the request
\* sent; params is the query sent.  outcome maps each task that has started
\* to where it is: at is the await it is suspended at or "done", pending
\* what the block of async with ended with once it has ended.
BeginFetchTradeHistory(task) ==
  /\ invoked # None /\ task \in DOMAIN invoked
  /\ invoked[task].function = "fetch_trade_history"
  /\ task \notin DOMAIN outcome
  /\ outcome' = outcome @@
       (task :> [at |-> "line 31",
                 params |-> LET asset_id == invoked[task].asset_id
                            IN IF asset_id \in {None, Some("")} THEN <<>>
                               ELSE <<<<"asset_id", asset_id[1]>>>>,
                 cancelled |-> FALSE, pending |-> None,
                 raised |-> None, returned |-> None])
  /\ UNCHANGED <<cycle, invoked, persisted, workers, request, updated, tenths,
                 updates, strategies, learning_results, bias_response>>

\* the task resumes with what the Database Agent's side did and runs the
\* rest of the block, lines 31-40, to its return or to the exception it
\* raises; on the way out of async with it awaits the closing of the client
\* with that result pending
ResumeFetchTradeHistory(task) ==
  /\ invoked # None /\ task \in DOMAIN invoked
  /\ invoked[task].function = "fetch_trade_history"
  /\ task \in DOMAIN outcome
  /\ outcome[task].at = "line 31"
  /\ outcome' = [outcome EXCEPT ![task] =
                   [@ EXCEPT !.at = "line 30 exit",
                             !.pending = Some(TryFetch(invoked[task].reply))]]
  /\ UNCHANGED <<cycle, invoked, persisted, workers, request, updated, tenths,
                 updates, strategies, learning_results, bias_response>>

\* the client is closed and the task runs to its end: the pending return of
\* line 40 takes place, or the pending exception reaches the except clauses,
\* lines 42-51, and leaves the call when none of them handles it
FinishFetchTradeHistory(task) ==
  /\ invoked # None /\ task \in DOMAIN invoked
  /\ invoked[task].function = "fetch_trade_history"
  /\ task \in DOMAIN outcome
  /\ outcome[task].at = "line 30 exit"
  /\ outcome' =
       [outcome EXCEPT ![task] =
          LET try == @.pending[1]
          IN [at |-> "done", params |-> @.params, cancelled |-> @.cancelled,
              pending |-> @.pending]
             @@ (IF try.exc = None
                   THEN [raised |-> None, returned |-> Some(try.trades)]
                 ELSE IF Caught(try.exc[1])
                   THEN [raised |-> None, returned |-> Some(<<>>)]
                 ELSE [raised |-> try.exc, returned |-> None])]
  /\ UNCHANGED <<cycle, invoked, persisted, workers, request, updated, tenths,
                 updates, strategies, learning_results, bias_response>>

\* the task is cancelled while it awaits: the await raises
\* asyncio.CancelledError.  At line 31 the exception leaves the block of
\* async with, whose exit awaits the closing of the client with it pending;
\* at that exit, whatever was pending (the trades parsed too), it leaves the
\* call, since no except clause handles it.
CancelFetchTradeHistory(task) ==
  /\ invoked # None /\ task \in DOMAIN invoked
  /\ invoked[task].function = "fetch_trade_history"
  /\ task \in DOMAIN outcome
  /\ outcome[task].at \in {"line 31", "line 30 exit"}
  /\ outcome' = [outcome EXCEPT ![task] =
                   IF @.at = "line 31"
                   THEN [@ EXCEPT !.at = "line 30 exit", !.cancelled = TRUE,
                                  !.pending = Some([exc |-> Some("CancelledError"),
                                                    trades |-> <<>>])]
                   ELSE [@ EXCEPT !.at = "done", !.cancelled = TRUE,
                                  !.raised = Some("CancelledError")]]
  /\ UNCHANGED <<cycle, invoked, persisted, workers, request, updated, tenths,
                 updates, strategies, learning_results, bias_response>>

(***************************************************************************)
(* The standalone analyzer: PerformanceAnalyzer of                         *)
(* learning_pipeline/performance_analysis.py.  Its Trade has entry_price,  *)
(* exit_price and side; the prices are whole numbers, as in the module's   *)
(* own example, and a side is the sequence of its characters, ASCII        *)
(* letters.  float('inf') is the value Infinity.  The built-in sum adds    *)
(* floats one after the other up to Python 3.11 and with a compensation    *)
(* for the rounding errors from Python 3.12 on; which of the two the       *)
(* interpreter does is compensated_sum, given with the call.               *)
(***************************************************************************)
MaxAnalyzed == 3

Infinity == [inf |-> TRUE]

\* Trade.calculate_pnl_pct, side as Trade.__init__ upper-cased it
TradeCalculatePnlPct(trade) ==
  IF trade.side = <<"L", "O", "N", "G">>
  THEN TrueDivide(FInt(trade.exit_price - trade.entry_price), FInt(trade.entry_price))
  ELSE IF trade.side = <<"S", "H", "O", "R", "T">>
  THEN TrueDivide(FInt(trade.entry_price - trade.exit_price), FInt(trade.entry_price))
  ELSE FZero

\* sum(floats) of the built-in, from the int 0.  Without compensation every
\* element is added to the total in turn.  With it (Neumaier's algorithm)
\* the total hi is kept with the sum lo of the rounding errors of its
\* additions, and lo is added at the end unless it is zero.
BuiltinSum(floats, compensated_sum) ==
  LET RECURSIVE InOrder(_)
      InOrder(n) == IF n = 0 THEN FZero ELSE FAdd(InOrder(n - 1), floats[n])
      Lost(hi, x, t) ==
        IF ~FLt(FAbs(hi), FAbs(x)) THEN FAdd(FSub(hi, t), x)
        ELSE FAdd(FSub(x, t), hi)
      Step(total, x, t) == [hi |-> t, lo |-> FAdd(total.lo, Lost(total.hi, x, t))]
      Next2(total, x) == Step(total, x, FAdd(total.hi, x))
      RECURSIVE Compensated(_)
      Compensated(n) ==
        IF n = 1 THEN [hi |-> floats[1], lo |-> FZero]
        ELSE Next2(Compensated(n - 1), floats[n])
      Total(sum) == IF sum.lo # FZero THEN FAdd(sum.hi, sum.lo) ELSE sum.hi
  IN IF floats = <<>> THEN FZero
     ELSE IF compensated_sum THEN Total(Compensated(Len(floats)))
     ELSE InOrder(Len(floats))

\* PerformanceAnalyzer.calculate_profit_factor
CalculateProfitFactor(pnl_pcts, compensated_sum) ==
  LET IsProfit(pnl) == FGt(pnl, FZero)
      IsLoss(pnl) == FLt(pnl, FZero)
      Ratio(gross_profit, gross_loss) ==
        IF gross_loss = FZero THEN Infinity ELSE FDiv(gross_profit, gross_loss)
  IN IF pnl_pcts = <<>> THEN FZero
     ELSE Ratio(BuiltinSum(SelectSeq(pnl_pcts, IsProfit), compensated_sum),
                FAbs(BuiltinSum(SelectSeq(pnl_pcts, IsLoss), compensated_sum)))

\* the loop of calculate_max_drawdown from element i of the equity curve on,
\* carrying peak and max_drawdown
RECURSIVE LargestDeclineFrom(_, _, _, _)
LargestDeclineFrom(equity_curve, i, peak, max_drawdown) ==
  IF i > Len(equity_curve) THEN max_drawdown
  ELSE LET Step(new_peak) ==
             LargestDeclineFrom(equity_curve, i + 1, new_peak,
                                FMax(max_drawdown,
                                     FDiv(FSub(new_peak, equity_curve[i]), new_peak)))
       IN Step(FMax(peak, equity_curve[i]))

\* PerformanceAnalyzer.calculate_max_drawdown, in percent: the equity curve
\* is 1.0 followed by 1.0 + sum(pnl_pcts[:i+1])
CalculateMaxDrawdown(pnl_pcts, compensated_sum) ==
  IF pnl_pcts = <<>> THEN FZero
  ELSE FMul(LargestDeclineFrom(
              <<FOne>> \o [i \in 1..Len(pnl_pcts) |->
                             FAdd(FOne, BuiltinSum(SubSeq(pnl_pcts, 1, i),
                                                   compensated_sum))],
              1, FOne, FZero),
            FInt(100))

\* PerformanceAnalyzer(trades).run_analysis(), with the analyzer's pnl_pcts
\* next to the summary; sides are the strings given to Trade, upper-cased by
\* its constructor (str.upper, letter by letter), which raises what
\* calculate_pnl_pct raises
RunAnalysis ==
  /\ invoked # None /\ outcome = None
  /\ invoked[1].function = "run_analysis"
  /\ LET trades == invoked[1].trades
         upper_case == [a |-> "A", b |-> "B", c |-> "C", d |-> "D", e |-> "E",
                        f |-> "F", g |-> "G", h |-> "H", i |-> "I", j |-> "J",
                        k |-> "K", l |-> "L", m |-> "M", n |-> "N", o |-> "O",
                        p |-> "P", q |-> "Q", r |-> "R", s |-> "S", t |-> "T",
                        u |-> "U", v |-> "V", w |-> "W", x |-> "X", y |-> "Y",
                        z |-> "Z"]
         upper(side) ==
           [i \in 1..Len(side) |->
              IF side[i] \in DOMAIN upper_case THEN upper_case[side[i]] ELSE side[i]]
         Summary(pnl_pcts) ==
           IF \E i \in 1..Len(pnl_pcts) : pnl_pcts[i] = ZeroDivisionError
           THEN [raised |-> Some("ZeroDivisionError")]
           ELSE [raised |-> None,
                 pnl_pcts |-> pnl_pcts,
                 total_trades |-> Len(trades),
                 win_rate_pct |-> IF pnl_pcts = <<>> THEN FZero
                                  ELSE FMul(FRatio(CountWins(pnl_pcts), Len(pnl_pcts)),
                                            FInt(100)),
                 profit_factor |->
                   CalculateProfitFactor(pnl_pcts, invoked[1].compensated_sum),
                 max_drawdown_pct |->
                   CalculateMaxDrawdown(pnl_pcts, invoked[1].compensated_sum)]
     IN outcome' = <<Summary(ListOf([i \in 1..Len(trades) |->
                       TradeCalculatePnlPct([trades[i] EXCEPT !.side = upper(@)])]))>>
  /\ UNCHANGED <<cycle, invoked, persisted, workers, request, updated, tenths,
                 updates, strategies, learning_results, bias_response>>

\* perf = _calculate_asset_performance(trades, pnl_pcts), called on its own
\* with any list of trades and with floats from Decimals of 1/PnlScale
AssetPerformance ==
  /\ invoked # None /\ outcome = None
  /\ invoked[1].function = "_calculate_asset_performance"
  /\ LET Perf(pnl_pcts) == CalculateAssetPerformance(invoked[1].trades, pnl_pcts)
     IN outcome' = <<Perf(ListOf([i \in 1..Len(invoked[1].pnl_pcts) |->
                                   FloatOfDecimal(invoked[1].pnl_pcts[i])]))>>
  /\ UNCHANGED <<cycle, invoked, persisted, workers, request, updated, tenths,
                 updates, strategies, learning_results, bias_response>>

(***************************************************************************)
(* The regime classifiers: classify_market_regime of market_regime.py and  *)
(* of learning_pipeline/market_regime.py.  A price series is the sequence  *)
(* of its closes.  The indicator library (pandas_ta) is the environment:   *)
(* what it would compute for the series is the record indicators, with     *)
(* status "none" (an indicator is None, and no column is appended for it), *)
(* "nan" (an indicator is all NaN), "short" (too few rows without NaN),    *)
(* "raises" or "ok" and, for "ok", the values the                          *)
(* classifiers read, written as decimals: prices whole numbers, ema slopes *)
(* in 1/100 of a price, atr_ratio in tenths.                               *)
(* PricePoint.timestamp is any string (models.py); timestamps tells        *)
(* whether the strings of the series are dates ("dates") or not            *)
(* ("not_dates"); only market_regime.py parses them.                       *)
(***************************************************************************)
MaxExtraPoints == 1

\* _determine_regime_from_indicators, every argument a float
DetermineRegimeFromIndicators(latest_price, latest_ema_200, latest_adx, adx_5_periods_ago, ema_slope, ema_slope_3_periods_ago, atr_ratio, close_mean) ==
  LET \* if cond: scores[label] += points
      add(score, cond, points) == IF cond THEN FAdd(score, points) ELSE score
      slope_threshold == FMul(close_mean, FRatio(5, 10000))
      price_proximity_pct ==
        IF latest_ema_200.s # 0
        THEN FDiv(FAbs(FSub(latest_price, latest_ema_200)), latest_ema_200)
        ELSE FZero
      adx_accelerating == FGt(latest_adx, FAdd(adx_5_periods_ago, FInt(5)))
      ema_flipped ==
        \/ (FGt(ema_slope, FZero) /\ FLt(ema_slope_3_periods_ago, FZero))
        \/ (FLt(ema_slope, FZero) /\ FGt(ema_slope_3_periods_ago, FZero))
      Decided(uptrend, downtrend, ranging, volatile) ==
        LET sorted_scores ==
              SortFloatsDesc(<<[regime |-> "uptrend", score |-> uptrend],
                               [regime |-> "downtrend", score |-> downtrend],
                               [regime |-> "ranging", score |-> ranging],
                               [regime |-> "volatile", score |-> volatile]>>,
                             <<uptrend, downtrend, ranging, volatile>>)
            Rated(winner, confidence_score) ==
              [regime |-> IF \/ FLt(winner.score, FRatio(6, 10))
                             \/ FLt(confidence_score, FRatio(15, 100))
                          THEN "undefined" ELSE winner.regime,
               confidence_score |-> FMin(FOne, confidence_score)]
            Ranked(winner, runner_up) ==
              Rated(winner,
                    FMax(FZero, FMin(FOne, FSub(winner.score, runner_up.score))))
        IN IF ~FLt(volatile, FRatio(7, 10))
           THEN [regime |-> "volatile", confidence_score |-> FMin(FOne, volatile)]
           ELSE Ranked(sorted_scores[1], sorted_scores[2])
  IN Decided(add(add(add(FZero, FGt(latest_adx, FInt(25)), FRatio(4, 10)),
                     FGt(ema_slope, FZero), FRatio(4, 10)),
                 FGt(latest_price, latest_ema_200), FRatio(2, 10)),
             add(add(add(FZero, FGt(latest_adx, FInt(25)), FRatio(4, 10)),
                     FLt(ema_slope, FZero), FRatio(4, 10)),
                 FLt(latest_price, latest_ema_200), FRatio(2, 10)),
             add(add(add(FZero, FLt(latest_adx, FInt(20)), FRatio(5, 10)),
                     FLt(FAbs(ema_slope), slope_threshold), FRatio(3, 10)),
                 FLt(price_proximity_pct, FRatio(1, 100)), FRatio(2, 10)),
             add(add(FZero, ~FLt(atr_ratio, FRatio(15, 10)), FRatio(7, 10)),
                 adx_accelerating \/ ema_flipped, FRatio(3, 10)))

\* _calculate_trade_pnl_pct(trade, price_history), a call of its own
TradePnlPct ==
  /\ invoked # None /\ outcome = None
  /\ invoked[1].function = "_calculate_trade_pnl_pct"
  /\ LET Ended(pnl_pct) ==
           IF pnl_pct = ZeroDivisionError
           THEN [raised |-> Some("ZeroDivisionError"), returned |-> None]
           ELSE [raised |-> None, returned |-> Some(pnl_pct)]
     IN outcome' = <<Ended(CalculateTradePnlPct(invoked[1].trade,
                                                invoked[1].price_history))>>
  /\ UNCHANGED <<cycle, invoked, persisted, workers, request, updated, tenths,
                 updates, strategies, learning_results, bias_response>>

\* the call with 5% of the mean price as the slope threshold
DetermineRegimeOfFlatterSlopes ==
  /\ invoked # None /\ outcome = None
  /\ invoked[1].function = "_determine_regime_from_indicators"
  /\ LET a == invoked[1]
     IN outcome' =
          <<DetermineRegimeFromIndicators(
              FInt(a.latest_price), FInt(a.latest_ema_200), FInt(a.latest_adx),
              FInt(a.adx_5_periods_ago), FRatio(a.ema_slope, 100),
              FRatio(a.ema_slope_3_periods_ago, 100), FRatio(a.atr_ratio, 10),
              FInt(a.close_mean * 100))>>
  /\ UNCHANGED <<cycle, invoked, persisted, workers, request, updated, tenths,
                 updates, strategies, learning_results, bias_response>>

\* the call that never sees a volatility ratio other than 1.0
DetermineRegimeWithoutAtrRatio ==
  /\ invoked # None /\ outcome = None
  /\ invoked[1].function = "_determine_regime_from_indicators"
  /\ LET a == invoked[1]
     IN outcome' =
          <<DetermineRegimeFromIndicators(
              FInt(a.latest_price), FInt(a.latest_ema_200), FInt(a.latest_adx),
              FInt(a.adx_5_periods_ago), FRatio(a.ema_slope, 100),
              FRatio(a.ema_slope_3_periods_ago, 100), FOne,
              FInt(a.close_mean))>>
  /\ UNCHANGED <<cycle, invoked, persisted, workers, request, updated, tenths,
                 updates, strategies, learning_results, bias_response>>

\* _determine_regime_from_indicators(...) called with indicator values of
\* its caller's choice, as the tests call it: the floats written as the
\* decimals of the call
DetermineRegime ==
  /\ invoked # None /\ outcome = None
  /\ invoked[1].function = "_determine_regime_from_indicators"
  /\ LET a == invoked[1]
     IN outcome' =
          <<DetermineRegimeFromIndicators(
              FInt(a.latest_price), FInt(a.latest_ema_200), FInt(a.latest_adx),
              FInt(a.adx_5_periods_ago), FRatio(a.ema_slope, 100),
              FRatio(a.ema_slope_3_periods_ago, 100), FRatio(a.atr_ratio, 10),
              FInt(a.close_mean))>>
  /\ UNCHANGED <<cycle, invoked, persisted, workers, request, updated, tenths,
                 updates, strategies, learning_results, bias_response>>

\* a series shorter than the minimum of the 14-period indicators
ShorterThanAdxNeeds(series) == Len(series) < 14

\* len(price_history) < 200, the first statement of both classifiers
TooShort(series) == Len(series) < 200

\* market_regime.classify_market_regime(price_history); computed tells
\* whether ta.ema, ta.adx and ta.atr were called
ClassifyMarketRegime ==
  /\ invoked # None /\ outcome = None
  /\ invoked[1].function = "classify_market_regime"
  /\ LET series == invoked[1].price_history
         ind == invoked[1].indicators
         undefined(computed) ==
           [raised |-> FALSE, regime |-> "undefined", confidence_score |-> FZero,
            computed |-> computed]
         \* the sum of series[lo..hi], exact for closes that are whole numbers
         RECURSIVE Total(_, _)
         Total(lo, hi) ==
           IF lo > hi THEN 0
           ELSE IF lo = hi THEN series[lo]
           ELSE Total(lo, (lo + hi) \div 2) + Total((lo + hi) \div 2 + 1, hi)
     IN outcome' =
          <<IF TooShort(series) THEN undefined(FALSE)
            \* pd.to_datetime(df['timestamp']) on a string that is no date
            ELSE IF invoked[1].timestamps = "not_dates"
              THEN [raised |-> TRUE, regime |-> "", confidence_score |-> FZero,
                    computed |-> FALSE]
            ELSE IF ind.status = "raises"
              THEN [raised |-> TRUE, regime |-> "", confidence_score |-> FZero,
                    computed |-> TRUE]
            ELSE IF ind.status \in {"none", "nan", "short"} THEN undefined(TRUE)
            ELSE [raised |-> FALSE, computed |-> TRUE]
                 @@ DetermineRegimeFromIndicators(
                      FInt(series[Len(series)]), FInt(ind.latest_ema_200),
                      FInt(ind.latest_adx), FInt(ind.adx_5_periods_ago),
                      FRatio(ind.ema_slope, 100),
                      FRatio(ind.ema_slope_3_periods_ago, 100),
                      FRatio(ind.atr_ratio, 10),
                      \* df['close'].mean()
                      FDiv(FInt(Total(1, Len(series))), FInt(Len(series))))>>
  /\ UNCHANGED <<cycle, invoked, persisted, workers, request, updated, tenths,
                 updates, strategies, learning_results, bias_response>>

\* learning_pipeline.market_regime.classify_market_regime(historical_data):
\* every score is 0.0 or 1.0, a tie of the two best gives confidence 0.5.
\* An indicator that raises is caught (lines 39-41) and rows with NaN are
\* dropped (lines 34-37); for an indicator that is None nothing is checked
\* and the lookup of its column, lines 48-57, raises KeyError.
PipelineClassifyMarketRegime ==
  /\ invoked # None /\ outcome = None
  /\ invoked[1].function = "learning_pipeline.classify_market_regime"
  /\ LET historical_data == invoked[1].price_history
         ind == invoked[1].indicators
         latest_price == FInt(historical_data[Len(historical_data)])
         latest_ema_200 == FInt(ind.latest_ema_200)
         ema_slope == FRatio(ind.ema_slope, 100)
         ema_slope_3_periods_ago == FRatio(ind.ema_slope_3_periods_ago, 100)
         \* scores[label] = 1.0 under the condition
         set(cond) == IF cond THEN FOne ELSE FZero
         \* price_proximity_pct < 0.02; the quotient by an average of 0 is inf
         \* or nan, neither of which is less
         price_is_near ==
           /\ latest_ema_200.s # 0
           /\ FLt(FDiv(FAbs(FSub(latest_price, latest_ema_200)), latest_ema_200),
                  FRatio(2, 100))
         uptrend == set(/\ ind.latest_adx > 25
                        /\ FGt(ema_slope, FZero)
                        /\ FGt(latest_price, latest_ema_200))
         downtrend == set(/\ ind.latest_adx > 25
                          /\ FLt(ema_slope, FZero)
                          /\ FLt(latest_price, latest_ema_200))
         ranging == set(ind.latest_adx < 20 /\ price_is_near)
         volatile ==
           set(\/ ~FLt(FRatio(ind.atr_ratio, 10), FRatio(15, 10))
               \/ ind.latest_adx > ind.adx_5_periods_ago + 5
               \/ (FGt(ema_slope, FZero) /\ FLt(ema_slope_3_periods_ago, FZero))
               \/ (FLt(ema_slope, FZero) /\ FGt(ema_slope_3_periods_ago, FZero)))
         sorted_scores ==
           SortFloatsDesc(<<[regime |-> "uptrend", score |-> uptrend],
                            [regime |-> "downtrend", score |-> downtrend],
                            [regime |-> "ranging", score |-> ranging],
                            [regime |-> "volatile", score |-> volatile]>>,
                          <<uptrend, downtrend, ranging, volatile>>)
         result(regime, confidence, computed) ==
           [raised |-> FALSE, regime |-> regime, confidence_score |-> confidence,
            computed |-> computed]
         Final(winner, runner_up) ==
           IF winner.score = FZero THEN result("undefined", FZero, TRUE)
           ELSE IF winner.score = runner_up.score
             THEN result("undefined", FRatio(1, 2), TRUE)
           ELSE result(winner.regime, winner.score, TRUE)
     IN outcome' =
          <<IF TooShort(historical_data) THEN result("undefined", FZero, FALSE)
            ELSE IF ind.status \in {"raises", "nan", "short"}
              THEN result("undefined", FZero, TRUE)
            ELSE IF ind.status = "none"
              THEN [raised |-> TRUE, regime |-> "", confidence_score |-> FZero,
                    computed |-> TRUE]
            ELSE Final(sorted_scores[1], sorted_scores[2])>>
  /\ UNCHANGED <<cycle, invoked, persisted, workers, request, updated, tenths,
                 updates, strategies, learning_results, bias_response>>

(***************************************************************************)
(* SpecCalls: the functions that keep no state, each called once with      *)
(* inputs drawn from small sets; of fetch_trade_history, a coroutine, one  *)
(* call or two calls at once, each in the steps its awaits divide it in.   *)
(***************************************************************************)
InitCalls ==
  /\ InitRequest
  /\ price_history = NoPriceHistory
  /\ BIAS_STATE = [a \in Assets |-> DefaultBias]
  /\ listing = "oldest_first"
  /\ invoked \in
       {<<[function |-> "fetch_trade_history", asset_id |-> asset_id,
           reply |-> reply]>> :
          asset_id \in {None, Some(""), Some("A")}, reply \in FetchReplies}
       \cup
       \* two calls at once, as of asyncio.gather
       LET concurrent ==
             {r \in FetchReplies :
                IF r.kind = "timeout" THEN TRUE
                ELSE /\ r.status = 200
                     /\ r.body # Malformed
                     /\ r.body.tag = "list"
                     /\ Len(r.body.items) = 1}
       IN {<<[function |-> "fetch_trade_history", asset_id |-> Some("A"),
              reply |-> first],
             [function |-> "fetch_trade_history", asset_id |-> Some("B"),
              reply |-> second]>> :
             first \in concurrent, second \in concurrent}
       \cup
       {<<[function |-> "run_analysis", trades |-> trades,
           compensated_sum |-> compensated_sum]>> :
          compensated_sum \in BOOLEAN,
          trades \in UNION {[1..n -> {[entry_price |-> 100, exit_price |-> x,
                                       side |-> <<"L", "O", "N", "G">>] :
                                        x \in {70, 80, 90, 100, 110}}
                                      \cup {[entry_price |-> 100, exit_price |-> x,
                                              side |-> <<"S", "h", "o", "r", "t">>] :
                                               x \in {90, 110}}
                                      \cup {[entry_price |-> 100, exit_price |-> 110,
                                              side |-> <<"l", "o", "n", "g">>],
                                             [entry_price |-> 100, exit_price |-> 90,
                                              side |-> <<"f", "l", "a", "t">>],
                                             [entry_price |-> 0, exit_price |-> 100,
                                              side |-> <<"l", "o", "n", "g">>]}] :
                              n \in 0..MaxAnalyzed}}
       \cup
       {<<[function |-> "_calculate_asset_performance",
           trades |-> [i \in 1..count |-> "trade"], pnl_pcts |-> pnl_pcts]>> :
          count \in {0, 2, MaxAnalyzed + 2},
          pnl_pcts \in UNION {[1..n -> {-120, -10, 0, 10}] : n \in 0..MaxAnalyzed}}
       \cup
       LET Indicators(ema, adx, adx_ago, slope, slope_ago, atr_ratio) ==
             [status |-> "ok", latest_ema_200 |-> ema, latest_adx |-> adx,
              adx_5_periods_ago |-> adx_ago, ema_slope |-> slope,
              ema_slope_3_periods_ago |-> slope_ago, atr_ratio |-> atr_ratio]
           computed == { Indicators(90, 30, 28, 10, 10, 10),
                         Indicators(100, 15, 15, 0, 0, 10),
                         Indicators(100, 15, 15, 0, 0, 15),
                         Indicators(100, 22, 22, 10, 10, 10),
                         Indicators(90, 30, 20, 10, -10, 10) }
           failed == {[Indicators(0, 0, 0, 0, 0, 0) EXCEPT !.status = st] :
                        st \in {"none", "nan", "short", "raises"}}
           lengths == {0, 1, 199, 200, 200 + MaxExtraPoints}
           series == {[i \in 1..n |-> 100] : n \in lengths}
                       \cup {[i \in 1..n |-> IF 2 * i <= n THEN 90 ELSE 110] :
                               n \in lengths}
       IN {<<[function |-> f, price_history |-> ph, indicators |-> ind,
               timestamps |-> "dates"]>> :
             f \in {"classify_market_regime",
                    "learning_pipeline.classify_market_regime"},
             ph \in series, ind \in computed \cup failed}
          \cup
          {<<[function |-> "classify_market_regime", price_history |-> ph,
              indicators |-> ind, timestamps |-> "not_dates"]>> :
             ph \in series, ind \in computed}
       \cup
       {<<[function |-> "_calculate_trade_pnl_pct",
           trade |-> [pnl_pct |-> pnl_pct, price |-> price, side |-> side],
           price_history |-> closes]>> :
          pnl_pct \in {None, Some(-5), Some(0), Some(12)},
          price \in {0, 3, 50, 100, 111, 200}, side \in {"buy", "sell"},
          closes \in {<<>>, <<4>>, <<100>>, <<110>>, <<90, 110>>, <<110, 90>>}}
       \cup
       {<<[function |-> "_determine_regime_from_indicators",
           latest_price |-> price, latest_ema_200 |-> 1000, latest_adx |-> adx,
           adx_5_periods_ago |-> adx - gain, ema_slope |-> slope,
           ema_slope_3_periods_ago |-> slope_ago, atr_ratio |-> atr_ratio,
           close_mean |-> 1000]>> :
          price \in {900, 995, 1000, 1005, 1010}, adx \in {15, 20, 25, 26, 30},
          gain \in {5, 6}, slope \in {-100, -10, 0, 10, 50, 100},
          slope_ago \in {-10, 0, 10}, atr_ratio \in {10, 14, 15, 20}}
  /\ outcome = None
  /\ persisted = [a \in Assets |-> None]
  /\ workers = {}
  /\ request = <<>>
  /\ updated = None
  /\ tenths = [a \in Assets |-> 0]
  /\ updates = 0
  /\ strategies = {}
  /\ learning_results = <<>>
  /\ bias_response = <<>>

NextCalls ==
  \/ \E task \in DOMAIN invoked : BeginFetchTradeHistory(task)
  \/ \E task \in DOMAIN invoked : ResumeFetchTradeHistory(task)
  \/ \E task \in DOMAIN invoked : FinishFetchTradeHistory(task)
  \/ \E task \in DOMAIN invoked : CancelFetchTradeHistory(task)
  \/ RunAnalysis
  \/ AssetPerformance
  \/ TradePnlPct
  \/ DetermineRegime
  \/ ClassifyMarketRegime
  \/ PipelineClassifyMarketRegime

SpecCalls == InitCalls /\ [][NextCalls]_vars

(***************************************************************************)
(* The Bias Store.  Its update operation is specified, not implemented     *)
(* here: add the delta to the current triple, clamp each component to      *)
(* [-1.0, 1.0], keep the result in memory, write it through, return it;    *)
(* one update of an asset at a time (a lock per asset); a failed write     *)
(* does not undo the change in memory.  save_bias_state is database.py's.  *)
(* A bias is in 1/PnlScale: 100 is 1.0.                                    *)
(***************************************************************************)
MaxUpdates == 12

MaxConcurrentUpdates == 3

\* the deltas sent: +0.1 to bull_bias (test_bias_clamping), zero, and one
\* that is larger than 2 in two components with opposite signs
BiasDeltas ==
  { [bull_bias |-> 10, bear_bias |-> 0, vol_bias |-> 0],
    [bull_bias |-> 0, bear_bias |-> 0, vol_bias |-> 0],
    [bull_bias |-> 250, bear_bias |-> -250, vol_bias |-> 0] }

\* the sum without the clamp
UnclampedSum(current, delta) ==
  [c \in {"bull_bias", "bear_bias", "vol_bias"} |-> current[c] + delta[c]]

\* the delta added to the default triple
ClampedSumFromDefault(current, delta) ==
  [c \in {"bull_bias", "bear_bias", "vol_bias"} |->
     IF delta[c] > PnlScale THEN PnlScale
     ELSE IF delta[c] < -PnlScale THEN -PnlScale ELSE delta[c]]

\* add the delta triple to the current value, clamp each component
ClampedSum(current, delta) ==
  [c \in {"bull_bias", "bear_bias", "vol_bias"} |->
     IF current[c] + delta[c] > PnlScale THEN PnlScale
     ELSE IF current[c] + delta[c] < -PnlScale THEN -PnlScale
     ELSE current[c] + delta[c]]

\* save_bias_state(bias_state): an upsert for each asset of bias_state and
\* one commit; when the session fails the rollback leaves the rows as they
\* were and the exception is raised again
SaveBiasState(rows, bias_state, commits) ==
  IF commits
  THEN [rows |-> [a \in DOMAIN rows |->
                    IF a \in DOMAIN bias_state THEN Some(bias_state[a])
                    ELSE rows[a]],
        raised |-> FALSE]
  ELSE [rows |-> rows, raised |-> TRUE]

\* an update that gives up its change when the write fails
ApplyBiasDeltaOrRollBack(asset_id, current, delta, rows, commits) ==
  LET new == IF commits THEN ClampedSum(current, delta) ELSE current
  IN [current_bias |-> new,
      rows |-> SaveBiasState(rows, [a \in {asset_id} |-> new], commits).rows,
      updated |-> commits]

\* apply_bias_delta(asset_id, delta), from the triple read: the new triple
\* kept in memory and returned, and the rows after the write; the failure
\* of the write is logged and nothing else
ApplyBiasDelta(asset_id, current, delta, rows, commits) ==
  LET new == ClampedSum(current, delta)
  IN [current_bias |-> new,
      rows |-> SaveBiasState(rows, [a \in {asset_id} |-> new], commits).rows,
      updated |-> TRUE]

\* no lock at all
NoLock(asset_id) == TRUE

\* the lock of the asset is free: no worker is updating the asset
LockFree(asset_id) ==
  \A w \in DOMAIN request :
    IF request[w] = None THEN TRUE ELSE request[w][1].asset_id # asset_id

\* a worker receives an update, takes the lock of the asset and reads the
\* current triple
BeginApplyBiasDelta(w, asset_id, delta) ==
  /\ request[w] = None
  /\ updates < (IF Cardinality(workers) > 1 THEN MaxConcurrentUpdates
                ELSE MaxUpdates)
  /\ LockFree(asset_id)
  /\ request' = [request EXCEPT ![w] = Some([asset_id |-> asset_id, delta |-> delta,
                                             current |-> BIAS_STATE[asset_id]])]
  /\ updates' = updates + 1
  /\ UNCHANGED <<trade_history, execution_result, price_history, BIAS_STATE,
                 listing, blocks, calls, called_with, response, raised, perf,
                 performance_score, invoked, outcome, persisted, workers, updated,
                 tenths, strategies, learning_results, bias_response>>

\* the worker writes the clamped sum to memory, saves the asset's row (the
\* session commits or fails), releases the lock and returns the new triple
FinishApplyBiasDelta(w, commits) ==
  /\ request[w] # None
  /\ LET asset_id == request[w][1].asset_id
         delta == request[w][1].delta
         applied == ApplyBiasDelta(asset_id, request[w][1].current, delta,
                                   persisted, commits)
     IN /\ BIAS_STATE' = [BIAS_STATE EXCEPT ![asset_id] = applied.current_bias]
        /\ persisted' = applied.rows
        /\ updated' = Some([asset_id |-> asset_id,
                            current_bias |-> applied.current_bias,
                            updated |-> applied.updated])
        /\ tenths' = [tenths EXCEPT ![asset_id] =
                        IF tenths[asset_id] >= 0
                           /\ delta = [bull_bias |-> 10, bear_bias |-> 0,
                                       vol_bias |-> 0]
                        THEN tenths[asset_id] + 1 ELSE -1]
  /\ request' = [request EXCEPT ![w] = None]
  /\ UNCHANGED <<trade_history, execution_result, price_history, listing, blocks,
                 calls, called_with, response, raised, perf, performance_score,
                 invoked, outcome, workers, updates, strategies, learning_results,
                 bias_response>>

\* one worker that serves up to MaxUpdates updates one after another, or two
\* workers that serve up to MaxConcurrentUpdates
InitBias ==
  /\ InitRequest
  /\ price_history = NoPriceHistory
  /\ BIAS_STATE = [a \in Assets |-> DefaultBias]
  /\ listing = "oldest_first"
  /\ invoked = None
  /\ outcome = None
  /\ persisted = [a \in Assets |-> None]
  /\ workers \in {{"w1"}, {"w1", "w2"}}
  /\ request = [w \in workers |-> None]
  /\ updated = None
  /\ tenths = [a \in Assets |-> 0]
  /\ updates = 0
  /\ strategies = {}
  /\ learning_results = <<>>
  /\ bias_response = <<>>

NextBias ==
  \/ \E w \in workers, asset_id \in Assets, delta \in BiasDeltas :
       BeginApplyBiasDelta(w, asset_id, delta)
  \/ \E w \in workers, commits \in BOOLEAN : FinishApplyBiasDelta(w, commits)

SpecBias == InitBias /\ [][NextBias]_vars

(***************************************************************************)
(* The API (api/main.py) over the tables strategies and learning_results   *)
(* (core/schemas.py).  bias_adjustment and confidence are whole numbers of *)
(* 1/PnlScale, created_at is a whole number of clock ticks.                *)
(***************************************************************************)
MaxResults == 3
MaxTime == 2

\* db.add(Strategy(id=id, strategy_name=strategy_name)); db.commit(): id is
\* the primary key and strategy_name is unique, a second row with either is
\* rejected and the table stays as it was
AddStrategy(id, strategy_name) ==
  /\ \A row \in strategies : row.id # id /\ row.strategy_name # strategy_name
  /\ strategies' = strategies \cup {[id |-> id, strategy_name |-> strategy_name]}
  /\ UNCHANGED <<cycle, invoked, outcome, persisted, workers, request, updated,
                 tenths, updates, learning_results, bias_response>>

\* db.add(LearningResult(...)); db.commit(): SQLite does not check that
\* strategy_id names a row of strategies
AddLearningResult(result) ==
  /\ Len(learning_results) < MaxResults
  /\ learning_results' = Append(learning_results, result)
  /\ UNCHANGED <<cycle, invoked, outcome, persisted, workers, request, updated,
                 tenths, updates, strategies, bias_response>>

\* GET /bias?strategy=..., every learning result taken for the strategy's
GetBiasOfAnyStrategy(strategy) ==
  /\ LET strategy_objs == {row \in strategies : row.strategy_name = strategy}
     IN IF strategy_objs = {}
        THEN bias_response' = <<[strategy |-> strategy, status_code |-> 404,
                                 body |-> None]>>
        ELSE LET strategy_obj == CHOOSE row \in strategy_objs : TRUE
                 of_strategy == 1..Len(learning_results)
             IN IF of_strategy = {}
                THEN bias_response' = <<[strategy |-> strategy, status_code |-> 404,
                                         body |-> None]>>
                ELSE \E first \in of_strategy :
                       /\ \A i \in of_strategy :
                            learning_results[i].created_at
                              <= learning_results[first].created_at
                       /\ LET latest_result == learning_results[first]
                          IN bias_response' =
                               <<[strategy |-> strategy, status_code |-> 200,
                                  body |-> <<[strategy_name |-> strategy_obj.strategy_name,
                                              bias_adjustment |-> latest_result.bias_adjustment,
                                              risk_level |-> latest_result.risk_level,
                                              market_regime |-> latest_result.market_regime,
                                              confidence |-> latest_result.confidence,
                                              last_updated |-> latest_result.created_at]>>]>>
  /\ UNCHANGED <<cycle, invoked, outcome, persisted, workers, request, updated,
                 tenths, updates, strategies, learning_results>>

\* GET /bias?strategy=...: the row of strategies with that name (at most one,
\* the name is unique), then the first of its learning results in descending
\* order of created_at; the order among equal created_at is the database's
GetBias(strategy) ==
  /\ LET strategy_objs == {row \in strategies : row.strategy_name = strategy}
     IN IF strategy_objs = {}
        THEN bias_response' = <<[strategy |-> strategy, status_code |-> 404,
                                 body |-> None]>>
        ELSE LET strategy_obj == CHOOSE row \in strategy_objs : TRUE
                 of_strategy == {i \in 1..Len(learning_results) :
                                   learning_results[i].strategy_id = strategy_obj.id}
             IN IF of_strategy = {}
                THEN bias_response' = <<[strategy |-> strategy, status_code |-> 404,
                                         body |-> None]>>
                ELSE \E first \in of_strategy :
                       /\ \A i \in of_strategy :
                            learning_results[i].created_at
                              <= learning_results[first].created_at
                       /\ LET latest_result == learning_results[first]
                          IN bias_response' =
                               <<[strategy |-> strategy, status_code |-> 200,
                                  body |-> <<[strategy_name |-> strategy_obj.strategy_name,
                                              bias_adjustment |-> latest_result.bias_adjustment,
                                              risk_level |-> latest_result.risk_level,
                                              market_regime |-> latest_result.market_regime,
                                              confidence |-> latest_result.confidence,
                                              last_updated |-> latest_result.created_at]>>]>>
  /\ UNCHANGED <<cycle, invoked, outcome, persisted, workers, request, updated,
                 tenths, updates, strategies, learning_results>>

\* the empty tables of the test fixture
InitApi ==
  /\ InitRequest
  /\ price_history = NoPriceHistory
  /\ BIAS_STATE = [a \in Assets |-> DefaultBias]
  /\ listing = "oldest_first"
  /\ invoked = None
  /\ outcome = None
  /\ persisted = [a \in Assets |-> None]
  /\ workers = {}
  /\ request = <<>>
  /\ updated = None
  /\ tenths = [a \in Assets |-> 0]
  /\ updates = 0
  /\ strategies = {}
  /\ learning_results = <<>>
  /\ bias_response = None

NextApi ==
  \/ \E id \in {"strat1", "strat2"}, strategy_name \in {"EMA_CROSS", "RSI_STRATEGY"} :
       AddStrategy(id, strategy_name)
  \/ \E result \in {[strategy_id |-> strategy_id,
                      bias_adjustment |-> IF trending THEN 15 ELSE -5,
                      risk_level |-> IF trending THEN "HIGH" ELSE "LOW",
                      market_regime |-> IF trending THEN "TRENDING" ELSE "SIDEWAYS",
                      confidence |-> IF trending THEN 85 ELSE 40,
                      created_at |-> created_at] :
                       strategy_id \in {"strat1", "strat2"}, created_at \in 1..MaxTime,
                       trending \in BOOLEAN} :
       AddLearningResult(result)
  \/ \E strategy \in {"EMA_CROSS", "RSI_STRATEGY", "NON_EXISTENT"} : GetBias(strategy)

SpecApi == InitApi /\ [][NextApi]_vars

(***************************************************************************)
(* Properties.  A call has returned when calls > 0 and response is not     *)
(* None; called_with is the trade list the call received.  Deltas are in   *)
(* thousandths: 50 is 0.05 and -5 is -0.005.                               *)
(***************************************************************************)

\* C1: an asset with fewer than 10 trades in the request never appears as a
\* key of policy_deltas.asset_biases, whatever the pnl of its trades.
WarmupAssetHasNoBias ==
  (calls > 0 /\ response # None) =>
    \A a \in Assets :
      Cardinality({i \in 1..Len(called_with) : called_with[i].asset_id = a}) < 10
        => a \notin DOMAIN response[1].policy_deltas.asset_biases

\* nine losing trades of B next to an eligible A that received a bias
WarmupAssetNextToBiasedAsset ==
  /\ calls > 0 /\ response # None
  /\ Cardinality({i \in 1..Len(called_with) : called_with[i].asset_id = "B"}) = 9
  /\ \A i \in 1..Len(called_with) :
       called_with[i].asset_id = "B" => called_with[i].pnl_pct = Some(-10)
  /\ "A" \in DOMAIN response[1].policy_deltas.asset_biases
  /\ "B" \notin DOMAIN response[1].policy_deltas.asset_biases

\* C2: a call with an empty trade list returns at once, nothing scored, with
\* learning_state insufficient_data, a non-empty reasoning trail and empty
\* asset_biases and risk, whatever execution_result and price_history hold.
EmptyHistoryIsInsufficientData ==
  (calls > 0 /\ called_with = <<>>) =>
    /\ ~raised
    /\ response # None
    /\ response[1].learning_state = "insufficient_data"
    /\ response[1].reasoning # <<>>
    /\ response[1].policy_deltas.asset_biases = <<>>
    /\ response[1].policy_deltas.risk = <<>>
    /\ perf = <<>>
    /\ trade_history = <<>>

\* an empty trade list with an executed execution_result holding a
\* malformed field, and a price history
EmptyHistoryWithExecutionResult ==
  /\ calls > 0 /\ called_with = <<>>
  /\ price_history = SomePriceHistory
  /\ execution_result # None
  /\ execution_result[1].status = Some("executed")
  /\ execution_result[1].pnl_pct = Malformed
  /\ response # None
  /\ response[1].learning_state = "insufficient_data"

\* C3: learning_state is one of insufficient_data, warmup, success (never
\* 'active'); it is warmup exactly when the trade list is non-empty and
\* every asset has fewer than 10 trades, and success exactly when some
\* asset has 10 or more.
LearningStateIsDetermined ==
  LET TradeCount(a) ==
        Cardinality({i \in 1..Len(called_with) : called_with[i].asset_id = a})
  IN (calls > 0 /\ response # None) =>
       /\ response[1].learning_state \in {"insufficient_data", "warmup", "success"}
       /\ response[1].learning_state = "warmup"
            <=> (called_with # <<>> /\ \A a \in Assets : TradeCount(a) < 10)
       /\ response[1].learning_state = "success"
            <=> \E a \in Assets : TradeCount(a) >= 10

\* one asset in warmup, one eligible: success
SuccessWithAnAssetInWarmup ==
  /\ calls > 0 /\ response # None
  /\ \E a \in Assets :
       Cardinality({i \in 1..Len(called_with) : called_with[i].asset_id = a})
         \in 1..9
  /\ \E a \in Assets :
       Cardinality({i \in 1..Len(called_with) : called_with[i].asset_id = a}) >= 10
  /\ response[1].learning_state = "success"

\* C4: for an eligible asset with score s, asset_biases holds +0.05 when
\* s > 0.70 and -0.05 when s < 0.45, and no entry for the asset when
\* 0.45 <= s <= 0.70; both thresholds are strict.
BiasFollowsStrictThresholds ==
  (calls > 0 /\ response # None) =>
    \A a \in Assets :
      Cardinality({i \in 1..Len(called_with) : called_with[i].asset_id = a}) >= 10 =>
        /\ a \in DOMAIN performance_score
        /\ FGt(performance_score[a], FRatio(70, 100)) =>
             /\ a \in DOMAIN response[1].policy_deltas.asset_biases
             /\ response[1].policy_deltas.asset_biases[a] = 50
        /\ FLt(performance_score[a], FRatio(45, 100)) =>
             /\ a \in DOMAIN response[1].policy_deltas.asset_biases
             /\ response[1].policy_deltas.asset_biases[a] = -50
        /\ (~FGt(performance_score[a], FRatio(70, 100))
            /\ ~FLt(performance_score[a], FRatio(45, 100))) =>
             a \notin DOMAIN response[1].policy_deltas.asset_biases

\* A scored exactly 0.70 (seven wins of 0.50 and three trades at 0: win
\* rate 0.7, no drawdown, volatility over 0.10) and received no entry
ScoreAtUpperThresholdIsNeutral ==
  /\ calls > 0 /\ response # None
  /\ "A" \in DOMAIN performance_score
  /\ performance_score["A"] = FRatio(70, 100)
  /\ "A" \notin DOMAIN response[1].policy_deltas.asset_biases

\* C5: the score compared with the thresholds is the hybrid score: the
\* volatility component is 1 - min(1, volatility/0.10) plus the asset's
\* vol_bias, clamped to [0,1]; base = 0.50*win_rate + 0.35*(1 - min(1,
\* drawdown/0.20)) + 0.15*component; final = base + bull_bias when
\* base > 0.5, else base - bear_bias, clamped to [0,1].  With every stored
\* bias at 0 it is the score of run_learning_cycle.
HybridScoreDecidesBias ==
  LET Clamp(x) == FMax(FZero, FMin(FOne, x))
      Stored(a, component) == FloatOfDecimal(BIAS_STATE[a][component])
      Component(a) == Clamp(FAdd(VolScore(perf[a]), Stored(a, "vol_bias")))
      Base(a) ==
        FAdd(FAdd(FMul(FRatio(50, 100), perf[a].win_rate),
                  FMul(FRatio(35, 100), MddScore(perf[a]))),
             FMul(FRatio(15, 100), Component(a)))
      Biased(a, base) ==
        Clamp(IF FGt(base, FRatio(5, 10)) THEN FAdd(base, Stored(a, "bull_bias"))
              ELSE FSub(base, Stored(a, "bear_bias")))
      Expected(final) ==
        IF FGt(final, FRatio(70, 100)) THEN 50
        ELSE IF FLt(final, FRatio(45, 100)) THEN -50
        ELSE 0
      Entry(a) ==
        IF a \in DOMAIN response[1].policy_deltas.asset_biases
        THEN response[1].policy_deltas.asset_biases[a] ELSE 0
  IN (calls > 0 /\ response # None) =>
       \A a \in DOMAIN perf : Entry(a) = Expected(Biased(a, Base(a)))

\* C6: policy_deltas.risk holds risk_per_trade exactly when an eligible
\* asset was flagged for risk review, by either rule; its value is -0.005,
\* applied once however many flags were raised; risk holds no other key.
RiskDeltaExactlyWhenFlagged ==
  LET Flags ==
        {i \in 1..Len(response[1].reasoning) :
           /\ response[1].reasoning[i].kind
                \in {"consecutive_losses", "high_recent_drawdown"}
           /\ Cardinality({j \in 1..Len(called_with) :
                             called_with[j].asset_id = response[1].reasoning[i].asset})
                >= 10}
      Reductions ==
        {i \in 1..Len(response[1].reasoning) :
           response[1].reasoning[i].kind = "global_risk_reduction"}
  IN (calls > 0 /\ response # None) =>
       /\ "risk_per_trade" \in DOMAIN response[1].policy_deltas.risk <=> Flags # {}
       /\ DOMAIN response[1].policy_deltas.risk \subseteq {"risk_per_trade"}
       /\ Flags # {} => /\ response[1].policy_deltas.risk["risk_per_trade"] = -5
                        /\ Cardinality(Reductions) = 1
       /\ Flags = {} => Reductions = {}

\* both assets flagged, A by both rules: one delta of -0.005
OneRiskDeltaForSeveralFlags ==
  /\ calls > 0 /\ response # None
  /\ \E i, j, k \in 1..Len(response[1].reasoning) :
       /\ response[1].reasoning[i] = Reason("consecutive_losses", "A", NoTrade)
       /\ response[1].reasoning[j] = Reason("high_recent_drawdown", "A", NoTrade)
       /\ response[1].reasoning[k] = Reason("consecutive_losses", "B", NoTrade)
  /\ response[1].policy_deltas.risk["risk_per_trade"] = -5

\* C7: an eligible asset is flagged by the consecutive-loss rule exactly
\* when, among its 10 most recent trades by timestamp, most recent first,
\* three consecutive trades have pnl < 0 (a pnl >= 0 ends a run); an asset
\* with 10 trades at pnl -0.01 yields risk_per_trade = -0.005 and a
\* 'consecutive losses' reasoning entry.
ConsecutiveLossRule ==
  LET Of(a) == {i \in 1..Len(called_with) : called_with[i].asset_id = a}
      \* how many trades of the asset come before trade i, most recent first
      Before(a, i) ==
        Cardinality({j \in Of(a) :
                       \/ called_with[j].executed_at > called_with[i].executed_at
                       \/ /\ called_with[j].executed_at = called_with[i].executed_at
                          /\ j < i})
      LossRunIn(recent) ==
        \E r \in 0..7 : {<<r, TRUE>>, <<r + 1, TRUE>>, <<r + 2, TRUE>>} \subseteq recent
      Flagged(a) ==
        \E i \in 1..Len(response[1].reasoning) :
          response[1].reasoning[i] = Reason("consecutive_losses", a, NoTrade)
  IN (calls > 0 /\ response # None) =>
       \A a \in Assets :
         /\ Cardinality(Of(a)) >= 10 =>
              (Flagged(a) <=>
                 LossRunIn({<<Before(a, i), called_with[i].pnl_pct[1] < 0>> :
                              i \in Of(a)}))
         /\ (Cardinality(Of(a)) = 10
             /\ \A i \in Of(a) : called_with[i].pnl_pct = Some(-1)) =>
              /\ Flagged(a)
              /\ "risk_per_trade" \in DOMAIN response[1].policy_deltas.risk
              /\ response[1].policy_deltas.risk["risk_per_trade"] = -5

\* ten trades of A at pnl -0.01: flagged, with the risk delta
TenSmallLossesFlagged ==
  /\ calls > 0 /\ response # None
  /\ Cardinality({i \in 1..Len(called_with) : called_with[i].asset_id = "A"}) = 10
  /\ \A i \in 1..Len(called_with) :
       called_with[i].asset_id = "A" => called_with[i].pnl_pct = Some(-1)
  /\ \E i \in 1..Len(response[1].reasoning) :
       response[1].reasoning[i] = Reason("consecutive_losses", "A", NoTrade)
  /\ response[1].policy_deltas.risk["risk_per_trade"] = -5

\* C8: with status 'executed' and a non-empty trade list, one trade is
\* written (at every place where the list holds it): the one with the
\* greatest timestamp; of its pnl_pct, entry_price and exit_price only those
\* whose key execution_result holds are overwritten (with its value), every
\* other field of that trade and every other trade keeps its value.  With
\* another status, or without execution_result, no trade is modified.
MergeWritesOnlyLatestTrade ==
  LET Executed ==
        /\ execution_result # None
        /\ execution_result[1].status = Some("executed")
      Present ==
        IF execution_result = None THEN {}
        ELSE {key \in {"pnl_pct", "entry_price", "exit_price"} :
                execution_result[1][key] # Absent}
      After(t) ==
        CHOOSE u \in {trade_history[i] : i \in 1..Len(trade_history)} :
          u.obj = t.obj
      Latest(t) ==
        \A i \in 1..Len(called_with) : called_with[i].executed_at <= t.executed_at
      Changed == {i \in 1..Len(called_with) : After(called_with[i]) # called_with[i]}
      \* the trades modified; a trade listed several times is one trade
      Modified == {called_with[i].obj : i \in Changed}
  IN calls > 0 =>
       /\ Len(trade_history) = Len(called_with)
       /\ {trade_history[i].trade_id : i \in 1..Len(trade_history)}
            = {called_with[i].trade_id : i \in 1..Len(called_with)}
       /\ \A i, j \in 1..Len(trade_history) :
            trade_history[i].obj = trade_history[j].obj
              => trade_history[i] = trade_history[j]
       /\ Cardinality(Modified) <= 1
       /\ \A i \in Changed :
            /\ Executed
            /\ Latest(called_with[i])
            /\ \A key \in DOMAIN called_with[i] \ Present :
                 After(called_with[i])[key] = called_with[i][key]
       /\ (Executed /\ called_with # <<>> /\ ~raised) =>
            \E i \in 1..Len(called_with) :
              /\ Latest(called_with[i])
              /\ \A key \in Present :
                   After(called_with[i])[key] = Some(execution_result[1][key].v)
       /\ ~Executed => trade_history = called_with

\* an executed execution_result holding only pnl_pct, three trades listed
\* oldest first: the last one listed took the pnl_pct and nothing else
LatestTradeTookPnlOnly ==
  /\ calls > 0 /\ ~raised
  /\ listing = "oldest_first"
  /\ Len(called_with) = 3
  /\ execution_result = Some(ExecutionResult(Some("executed"), Num(-4), Absent, Absent))
  /\ called_with[3].pnl_pct = Some(5)
  /\ \E i \in 1..Len(trade_history) :
       trade_history[i] = [called_with[3] EXCEPT !.pnl_pct = Some(-4)]
  /\ \A i \in 1..2 : \E j \in 1..Len(trade_history) : trade_history[j] = called_with[i]

\* C9: a malformed pnl_pct, entry_price or exit_price of an 'executed'
\* execution_result is ignored on its own: the call does not fail and
\* returns a response with a learning_state, the field of the latest trade
\* keeps its value and the well-formed fields are applied.
MalformedFieldIsIgnored ==
  LET Fields == {"pnl_pct", "entry_price", "exit_price"}
      After(t) ==
        CHOOSE u \in {trade_history[i] : i \in 1..Len(trade_history)} :
          u.trade_id = t.trade_id
      Latest(t) ==
        \A i \in 1..Len(called_with) : called_with[i].executed_at <= t.executed_at
  IN (/\ calls > 0 /\ called_with # <<>>
      /\ execution_result # None
      /\ execution_result[1].status = Some("executed")
      /\ \E key \in Fields : execution_result[1][key] = Malformed) =>
       /\ ~raised
       /\ response # None
       /\ response[1].learning_state \in {"insufficient_data", "warmup", "success"}
       /\ \E i \in 1..Len(called_with) :
            /\ Latest(called_with[i])
            /\ \A key \in Fields :
                 After(called_with[i])[key] =
                   IF execution_result[1][key].tag = "num"
                   THEN Some(execution_result[1][key].v)
                   ELSE called_with[i][key]

\* C10: the trades a cycle groups and scores hold one trade per trade id,
\* so the trade count of an asset in the warmup test is its number of
\* distinct trade ids: an asset with fewer than 10 distinct ids is in
\* warmup, and a scored asset's trade_count is that number.
TradeCountIsDistinctTradeIds ==
  LET Ids(a) == {called_with[i].trade_id :
                   i \in {j \in 1..Len(called_with) : called_with[j].asset_id = a}}
  IN (calls > 0 /\ response # None) =>
       \A a \in Assets :
         /\ a \in DOMAIN perf => perf[a].trade_count = Cardinality(Ids(a))
         /\ Cardinality(Ids(a)) \in 1..9 =>
              /\ a \notin DOMAIN perf
              /\ a \notin DOMAIN response[1].policy_deltas.asset_biases
              /\ \E i \in 1..Len(response[1].reasoning) :
                   response[1].reasoning[i] = Reason("warmup", a, NoTrade)

\* C11 as the specification states it: fetch_trade_history never raises, and
\* a call that has ended has returned a list, the empty one when the request
\* failed in transit, the status was an error or the payload could not be
\* parsed into trades.
FetchNeverRaises ==
  (invoked # None /\ invoked[1].function = "fetch_trade_history") =>
    \A task \in DOMAIN outcome :
      LET reply == invoked[task].reply
          call == outcome[task]
          items == reply.body.items
          good == /\ reply.kind = "response"
                  /\ reply.status = 200
                  /\ reply.body # Malformed
                  /\ reply.body.tag = "list"
                  /\ \A i \in 1..Len(items) :
                       /\ items[i].tag = "obj"
                       /\ TradeOf(items[i].members) # None
      IN /\ call.raised = None
         /\ call.at = "done" =>
              /\ call.returned # None
              /\ ~good => call.returned[1] = <<>>

\* C11: a call of fetch_trade_history whose task is not cancelled never
\* raises: when the request fails in transit, when the status is an error,
\* or when the payload cannot be parsed as a list of trades (it is no JSON,
\* no list, or one of its items is no object or has a missing or ill-typed
\* field), it returns the empty list, never a part of the payload; otherwise
\* it returns one trade for every item, in order.  A call whose task is
\* cancelled while it awaits the response or the closing of the client
\* raises asyncio.CancelledError and returns nothing, also when the payload
\* was parsed or the failure was met before; no call raises anything else.
\* This holds for every call in flight, whatever the other calls do.
FailedFetchReturnsEmptyList ==
  (invoked # None /\ invoked[1].function = "fetch_trade_history") =>
    \A task \in DOMAIN outcome :
      LET reply == invoked[task].reply
          call == outcome[task]
          items == reply.body.items
          good == /\ reply.kind = "response"
                  /\ reply.status = 200
                  /\ reply.body # Malformed
                  /\ reply.body.tag = "list"
                  /\ \A i \in 1..Len(items) :
                       /\ items[i].tag = "obj"
                       /\ TradeOf(items[i].members) # None
      IN /\ call.raised # None =>
              /\ call.raised = Some("CancelledError")
              /\ call.cancelled
         /\ call.at # "done" => (call.raised = None /\ call.returned = None)
         /\ (call.at = "done" /\ call.cancelled) =>
              /\ call.raised = Some("CancelledError")
              /\ call.returned = None
         /\ (call.at = "done" /\ ~call.cancelled) =>
              /\ call.raised = None
              /\ call.returned # None
              /\ ~good => call.returned[1] = <<>>
              /\ good =>
                   /\ Len(call.returned[1]) = Len(items)
                   /\ \A i \in 1..Len(items) :
                        /\ call.returned[1][i].trade_id = items[i].members.trade_id
                        /\ call.returned[1][i].price = items[i].members.price.v

\* two calls at once: the first timed out and returned the empty list; the
\* second, a 200 response of one trade, was cancelled where it awaited the
\* closing of the client, the trade parsed, and raised CancelledError
FetchTimedOutAndFetchCancelledAfterParsing ==
  /\ invoked # None /\ Len(invoked) = 2
  /\ invoked[1].function = "fetch_trade_history"
  /\ DOMAIN outcome = {1, 2}
  /\ invoked[1].reply.kind = "timeout"
  /\ outcome[1].at = "done" /\ ~outcome[1].cancelled
  /\ outcome[1].raised = None
  /\ outcome[1].returned = Some(<<>>)
  /\ invoked[2].reply.kind = "response"
  /\ outcome[2].at = "done" /\ outcome[2].cancelled
  /\ outcome[2].pending # None
  /\ outcome[2].pending[1].exc = None
  /\ Len(outcome[2].pending[1].trades) = 1
  /\ outcome[2].raised = Some("CancelledError")
  /\ outcome[2].returned = None

\* C12: whatever updates were applied, every component of every asset's
\* triple lies in [-1.0, 1.0], and an asset that received twelve updates of
\* +0.1 to bull_bias and no other has bull_bias 1.0 and the other two
\* components at their default 0.
BiasComponentsStayClamped ==
  /\ \A a \in Assets : \A c \in {"bull_bias", "bear_bias", "vol_bias"} :
       BIAS_STATE[a][c] >= -PnlScale /\ BIAS_STATE[a][c] <= PnlScale
  /\ \A a \in Assets :
       tenths[a] = 12 =>
         BIAS_STATE[a] = [bull_bias |-> PnlScale, bear_bias |-> 0, vol_bias |-> 0]

\* twelve updates of +0.1 applied to A, as test_bias_clamping sends
TwelveTenthsApplied == tenths["A"] = 12

\* C13: an update with the all-zero delta leaves every triple in memory as it
\* was and returns the asset's current triple, which is the default
\* (0, 0, 0) when no update was applied to the asset before.
ZeroDeltaReturnsCurrentTriple ==
  [][\A w \in workers :
       (/\ request[w] # None
        /\ request'[w] = None
        /\ request[w][1].delta = [bull_bias |-> 0, bear_bias |-> 0, vol_bias |-> 0])
       => /\ BIAS_STATE' = BIAS_STATE
          /\ updated' # None
          /\ updated'[1].asset_id = request[w][1].asset_id
          /\ updated'[1].current_bias = BIAS_STATE[request[w][1].asset_id]
          /\ tenths[request[w][1].asset_id] = 0
               => updated'[1].current_bias = DefaultBias]_vars

\* the zero delta was the first update of B, after updates of A: B's triple
\* is the default and was returned
ZeroDeltaOnFreshAsset ==
  /\ updated = Some([asset_id |-> "B", current_bias |-> DefaultBias,
                     updated |-> TRUE])
  /\ tenths["B"] = -1
  /\ BIAS_STATE["B"] = DefaultBias
  /\ BIAS_STATE["A"] # DefaultBias

\* C14: when an update of an asset ends, the triple in memory is the clamped
\* sum of its delta and the triple that was there just before, so the
\* updates of one asset take effect one after another and none is lost, and
\* no other asset's triple changes; two workers can update different assets
\* at the same time.
UpdatesOfOneAssetAreSerial ==
  [][\A w \in workers :
       (request[w] # None /\ request'[w] = None)
       => /\ BIAS_STATE'[request[w][1].asset_id]
               = ClampedSum(BIAS_STATE[request[w][1].asset_id], request[w][1].delta)
          /\ \A b \in Assets \ {request[w][1].asset_id} :
               BIAS_STATE'[b] = BIAS_STATE[b]]_vars

\* both workers are updating, one A and one B, after a first update of A
TwoAssetsUpdatedAtOnce ==
  /\ workers = {"w1", "w2"}
  /\ request["w1"] # None /\ request["w2"] # None
  /\ request["w1"][1].asset_id # request["w2"][1].asset_id
  /\ tenths["A"] = 1

\* C15: an update ends with its clamped sum in memory and in the response
\* whether or not the write succeeded; the asset's row then holds the new
\* triple, or, when the write failed, every row is as it was.
FailedWriteLeavesMemoryAhead ==
  [][\A w \in workers :
       (request[w] # None /\ request'[w] = None)
       => LET asset_id == request[w][1].asset_id
              new == ClampedSum(request[w][1].current, request[w][1].delta)
          IN /\ BIAS_STATE'[asset_id] = new
             /\ updated' = Some([asset_id |-> asset_id, current_bias |-> new,
                                 updated |-> TRUE])
             /\ \/ persisted' = [persisted EXCEPT ![asset_id] = Some(new)]
                \/ persisted' = persisted]_vars

\* the last update changed A in memory and its row was never written
RowLagsBehindMemory ==
  /\ updated # None /\ updated[1].asset_id = "A"
  /\ updated[1].current_bias = BIAS_STATE["A"]
  /\ BIAS_STATE["A"] # DefaultBias
  /\ persisted["A"] = None
  /\ \A w \in workers : request[w] = None

\* C16: a call of run_learning_cycle leaves the stored biases as they were,
\* and a second call with the same request object, as the first call left
\* it, ends as the first did: it raises if the first raised, and otherwise
\* returns the same learning_state and the same policy_deltas.
RepeatedCycleReturnsTheSame ==
  [][calls' = calls + 1 =>
       /\ BIAS_STATE' = BIAS_STATE
       /\ calls >= 1 =>
            /\ raised' = raised
            /\ (response = None) = (response' = None)
            /\ response # None =>
                 /\ response'[1].learning_state = response[1].learning_state
                 /\ response'[1].policy_deltas = response[1].policy_deltas]_vars

\* the second call returned, for a request whose eligible asset A has two
\* losses listed after its oldest trade and whose execution_result, a loss,
\* was merged into the newest trade by the first call
SecondCallAfterMerge ==
  /\ calls = 2 /\ response # None
  /\ listing = "oldest_first"
  /\ execution_result = Some(ExecutionResult(Some("executed"), Num(-4), Absent, Absent))
  /\ Len(trade_history) = 10
  /\ trade_history[1].pnl_pct = Some(-4)
  /\ trade_history[9].pnl_pct = Some(-1)
  /\ trade_history[10].pnl_pct = Some(0)
  /\ called_with = trade_history
  /\ response[1].learning_state = "success"
  /\ response[1].policy_deltas.risk = <<>>

\* C17: the profit factor of the standalone analyzer is infinite exactly
\* when no trade lost and some trade has pnl > 0, and is 0 exactly when the
\* trade list is empty.
ProfitFactorInfiniteOrZero ==
  (outcome # None /\ invoked[1].function = "run_analysis"
     /\ outcome[1].raised = None) =>
    LET pnl_pcts == outcome[1].pnl_pcts
    IN /\ (outcome[1].profit_factor = Infinity)
            = (/\ \A i \in 1..Len(pnl_pcts) : ~FLt(pnl_pcts[i], FZero)
               /\ \E i \in 1..Len(pnl_pcts) : FGt(pnl_pcts[i], FZero))
       /\ (outcome[1].profit_factor = FZero) = (invoked[1].trades = <<>>)

\* C18: the max drawdown of either analyzer is never negative, and it is 0
\* exactly when the equity curve never decreases, that is when no trade has
\* a negative pnl (the first of them lowers the curve); the empty sequence
\* gives 0.
DrawdownZeroIffCurveNeverDecreases ==
  LET Holds(max_drawdown, losses) ==
        /\ ~FLt(max_drawdown, FZero)
        /\ (max_drawdown = FZero) = (losses = {})
  IN /\ (outcome # None /\ invoked[1].function = "_calculate_asset_performance") =>
          Holds(outcome[1].max_drawdown,
                {i \in 1..Len(invoked[1].pnl_pcts) : invoked[1].pnl_pcts[i] < 0})
     /\ (outcome # None /\ invoked[1].function = "run_analysis") =>
          (outcome[1].raised = None =>
             Holds(outcome[1].max_drawdown_pct,
                   {i \in 1..Len(outcome[1].pnl_pcts) :
                      FLt(outcome[1].pnl_pcts[i], FZero)}))

\* the orchestrator's function on a sequence whose first trade is a loss of
\* 10% and whose other trades are not losses: the drawdown is 1.0 - 0.9
FirstTradeIsALoss ==
  /\ outcome # None /\ invoked[1].function = "_calculate_asset_performance"
  /\ invoked[1].pnl_pcts = <<-10, 10, 0>>
  /\ outcome[1].max_drawdown = FSub(FOne, FRatio(9, 10))

\* C19: for every sequence the standalone analyzer's max drawdown, a
\* percentage, is 100 times the max drawdown of the orchestrator's function
\* (up to the rounding of the two computations, taken as 1e-9).
DrawdownIsTheSameInBothScales ==
  (outcome # None /\ invoked[1].function = "run_analysis"
     /\ outcome[1].raised = None) =>
    FLt(FAbs(FSub(outcome[1].max_drawdown_pct,
                  FMul(FInt(100), MaxDrawdown(outcome[1].pnl_pcts)))),
        FRatio(1, 1000000000))

\* C20: for a price series of fewer than 200 points both classifiers return
\* regime undefined with confidence 0.0, whatever the closes are and
\* whatever the indicator library would compute, and do not call it.
ShortSeriesIsUndefined ==
  (outcome # None
     /\ invoked[1].function \in {"classify_market_regime",
                                 "learning_pipeline.classify_market_regime"}
     /\ Len(invoked[1].price_history) < 200) =>
    /\ ~outcome[1].raised
    /\ outcome[1].regime = "undefined"
    /\ outcome[1].confidence_score = FZero
    /\ ~outcome[1].computed

\* 199 points, 90 then 110, for which the library would report a strong
\* uptrend
OnePointShortOfAnUptrend ==
  /\ outcome # None /\ invoked[1].function = "classify_market_regime"
  /\ Len(invoked[1].price_history) = 199
  /\ invoked[1].price_history[199] = 110
  /\ invoked[1].indicators.status = "ok"
  /\ invoked[1].indicators.latest_adx = 30
  /\ outcome[1].regime = "undefined"

(***************************************************************************)
(* The regime decision.  The indicator values of a call are decimals, the  *)
(* scores the doubles that the weights of section 4.1 add up to.           *)
(***************************************************************************)
\* C21: given the four scores of section 4.1, a volatile score of 0.7 or more
\* makes the regime volatile with confidence min(1.0, volatile score),
\* whatever the other scores; otherwise the confidence is max(0, highest
\* score - second-highest score) and the regime is the highest-scoring label
\* unless the highest score is under 0.6 or the confidence under 0.15, when it
\* is undefined (a highest score of 0.6, which the weights 0.4 and 0.2 make,
\* with a margin of 0.15 or more is defined, a tie for first place is
\* undefined with confidence 0).  The confidence is always in [0,1].
RegimeDecisionFollowsScores ==
  (/\ invoked # None
   /\ outcome # None
   /\ invoked[1].function = "_determine_regime_from_indicators")
  => LET a == invoked[1]
         abs(x) == IF x < 0 THEN -x ELSE x
         add(score, cond, points) == IF cond THEN FAdd(score, points) ELSE score
         labels == {"uptrend", "downtrend", "ranging", "volatile"}
         Follows(score, got) ==
           LET top == CHOOSE l \in labels :
                        \A m \in labels : ~FGt(score[m], score[l])
               highest == score[top]
               firsts == {l \in labels : score[l] = highest}
               next == CHOOSE l \in labels \ {top} :
                         \A m \in labels \ {top} : ~FGt(score[m], score[l])
               margin == FSub(highest, score[next])
           IN /\ ~FLt(got.confidence_score, FZero)
              /\ ~FGt(got.confidence_score, FOne)
              /\ IF ~FLt(score.volatile, FRatio(7, 10))
                 THEN /\ got.regime = "volatile"
                      /\ got.confidence_score = FMin(FOne, score.volatile)
                 ELSE /\ got.confidence_score = FMax(FZero, margin)
                      /\ IF \/ FLt(highest, FRatio(6, 10))
                            \/ FLt(margin, FRatio(15, 100))
                         THEN got.regime = "undefined"
                         ELSE got.regime \in firsts
              /\ (Cardinality(firsts) > 1 /\ FLt(score.volatile, FRatio(7, 10)))
                   => (got.regime = "undefined" /\ got.confidence_score = FZero)
     IN Follows(
          [uptrend |->
             add(add(add(FZero, a.latest_adx > 25, FRatio(4, 10)),
                     a.ema_slope > 0, FRatio(4, 10)),
                 a.latest_price > a.latest_ema_200, FRatio(2, 10)),
           downtrend |->
             add(add(add(FZero, a.latest_adx > 25, FRatio(4, 10)),
                     a.ema_slope < 0, FRatio(4, 10)),
                 a.latest_price < a.latest_ema_200, FRatio(2, 10)),
           ranging |->
             add(add(add(FZero, a.latest_adx < 20, FRatio(5, 10)),
                     abs(a.ema_slope) * 20 < a.close_mean, FRatio(3, 10)),
                 abs(a.latest_price - a.latest_ema_200) * 100 < a.latest_ema_200,
                 FRatio(2, 10)),
           volatile |->
             add(add(FZero, a.atr_ratio >= 15, FRatio(7, 10)),
                 \/ a.latest_adx - a.adx_5_periods_ago > 5
                 \/ a.ema_slope * a.ema_slope_3_periods_ago < 0,
                 FRatio(3, 10))],
          outcome[1])

\* uptrend scores 0.4 + 0.2 (from trend strength and price), downtrend 0.4,
\* ranging 0.3, volatile 0: defined, with the difference of the first two as
\* confidence
DefinedAtWinningScoreOfSixTenths ==
  /\ invoked # None
  /\ outcome # None
  /\ invoked[1].function = "_determine_regime_from_indicators"
  /\ invoked[1].latest_adx = 26
  /\ invoked[1].adx_5_periods_ago = 21
  /\ invoked[1].ema_slope = 0
  /\ invoked[1].latest_price = 1010
  /\ invoked[1].atr_ratio = 14
  /\ outcome[1] = [regime |-> "uptrend",
                   confidence_score |->
                     FSub(FAdd(FRatio(4, 10), FRatio(2, 10)), FRatio(4, 10))]

\* C22 as stated: trend strength 30, a positive slope, the price above the
\* trend average and a volatility ratio under 1.5 always give uptrend with
\* confidence 0.6.
UptrendScenarioHasConfidenceSixTenths ==
  (/\ invoked # None
   /\ outcome # None
   /\ invoked[1].function = "_determine_regime_from_indicators"
   /\ invoked[1].latest_adx = 30
   /\ invoked[1].ema_slope > 0
   /\ invoked[1].latest_price > invoked[1].latest_ema_200
   /\ invoked[1].atr_ratio < 15)
  => outcome[1] = [regime |-> "uptrend", confidence_score |-> FRatio(6, 10)]

\* C22, amended: in that scenario the regime is always uptrend; the confidence
\* is 0.6 unless the slope is under 0.05% of the mean price and the price is
\* within 1% of the trend average as well, which make ranging (0.3 + 0.2) the
\* runner-up instead of downtrend (0.4): then it is 0.5.
UptrendScenarioConfidence ==
  (/\ invoked # None
   /\ outcome # None
   /\ invoked[1].function = "_determine_regime_from_indicators"
   /\ invoked[1].latest_adx = 30
   /\ invoked[1].ema_slope > 0
   /\ invoked[1].latest_price > invoked[1].latest_ema_200
   /\ invoked[1].atr_ratio < 15)
  => LET a == invoked[1]
         flat == a.ema_slope * 20 < a.close_mean
         near == (a.latest_price - a.latest_ema_200) * 100 < a.latest_ema_200
     IN outcome[1] = [regime |-> "uptrend",
                      confidence_score |->
                        IF flat /\ near THEN FRatio(5, 10) ELSE FRatio(6, 10)]

\* a slope of 0.10 with a mean price of 1000 and the price 0.5% above the
\* trend average: uptrend 1.0, ranging 0.5
UptrendOverRangingRunnerUp ==
  /\ invoked # None
  /\ outcome # None
  /\ invoked[1].function = "_determine_regime_from_indicators"
  /\ invoked[1].latest_adx = 30
  /\ invoked[1].ema_slope = 10
  /\ invoked[1].latest_price = 1005
  /\ invoked[1].atr_ratio = 14
  /\ outcome[1] = [regime |-> "uptrend", confidence_score |-> FRatio(5, 10)]

\* C29: the regime returned is volatile exactly when the volatility ratio is
\* 1.5 or more: acceleration of the trend strength or a flip of the slope's
\* sign alone never make it volatile, and a ratio of 1.5 or more overrides any
\* other score, an uptrend or downtrend score of 1.0 included.
VolatileIffAtrRatioAtLeastOneAndAHalf ==
  (/\ invoked # None
   /\ outcome # None
   /\ invoked[1].function = "_determine_regime_from_indicators")
  => ((outcome[1].regime = "volatile") <=> (invoked[1].atr_ratio >= 15))

\* uptrend scores 1.0 (trend strength 30, rising, price above the average)
\* and the ratio is exactly 1.5, without acceleration or flip: volatile, 0.7
OverrideOfAFullUptrendScore ==
  /\ invoked # None
  /\ outcome # None
  /\ invoked[1].function = "_determine_regime_from_indicators"
  /\ invoked[1].latest_adx = 30
  /\ invoked[1].adx_5_periods_ago = 25
  /\ invoked[1].ema_slope = 100
  /\ invoked[1].ema_slope_3_periods_ago = 10
  /\ invoked[1].latest_price = 1010
  /\ invoked[1].atr_ratio = 15
  /\ outcome[1] = [regime |-> "volatile", confidence_score |-> FRatio(7, 10)]

\* C23: classify_market_regime never raises for a well-typed price series;
\* whenever an indicator series is missing, empty, all NaN, fails to compute
\* or has fewer than 6 valid points, the result is undefined with confidence
\* 0.0.
ClassifyRegimeNeverRaises ==
  (/\ invoked # None
   /\ outcome # None
   /\ invoked[1].function = "classify_market_regime")
  => /\ ~outcome[1].raised
     /\ (\/ TooShort(invoked[1].price_history)
         \/ invoked[1].indicators.status # "ok")
          => (outcome[1].regime = "undefined"
                /\ outcome[1].confidence_score = FZero)

\* C25: the pnl fraction of a trade is the trade's own pnl_pct whenever it is
\* present, whatever the price history; otherwise, with a price history, it
\* is derived from the trade's price and the last close: (close - entry) /
\* entry for a buy and (entry - close) / entry for a sell (the double nearest
\* to the quotient, for an entry price other than 0), so that for the same
\* prices the sell value is the negation of the buy value.
PnlIsOwnValueElseDerivedFromLastClose ==
  (/\ invoked # None
   /\ outcome # None
   /\ invoked[1].function = "_calculate_trade_pnl_pct")
  => LET trade == invoked[1].trade
         closes == invoked[1].price_history
         close == closes[Len(closes)]
         opposite == [trade EXCEPT !.side = IF @ = "buy" THEN "sell" ELSE "buy"]
     IN /\ trade.pnl_pct # None =>
             outcome[1].returned = Some(FRatio(trade.pnl_pct[1], PnlScale))
        /\ (trade.pnl_pct = None /\ closes # <<>> /\ trade.price # 0) =>
             /\ outcome[1].returned
                  = Some(FRatio(IF trade.side = "buy" THEN close - trade.price
                                ELSE trade.price - close, trade.price))
             /\ outcome[1].returned
                  = Some(FNeg(CalculateTradePnlPct(opposite, closes)))

\* a sell at 200 without pnl_pct, closes 90 then 110: (200 - 110) / 200
SellDerivedFromLastClose ==
  /\ invoked # None
  /\ outcome # None
  /\ invoked[1].function = "_calculate_trade_pnl_pct"
  /\ invoked[1].trade = [pnl_pct |-> None, price |-> 200, side |-> "sell"]
  /\ invoked[1].price_history = <<90, 110>>
  /\ outcome[1].returned = Some(FRatio(45, 100))

\* C26: an eligible asset is flagged by the recent-drawdown rule exactly when
\* the max drawdown of its 10 most recent trades, on the equity curve of
\* those trades taken in chronological order, is strictly greater than 0.08
\* (exactly 0.08 does not flag).
RecentDrawdownRule ==
  LET Of(a) == {i \in 1..Len(called_with) : called_with[i].asset_id = a}
      \* how many trades of the asset are more recent than trade i
      Before(a, i) ==
        Cardinality({j \in Of(a) :
                       called_with[j].executed_at > called_with[i].executed_at})
      \* the pnl of the 10 most recent trades, oldest first
      Chronological(a) ==
        [k \in 1..10 |->
           FloatOfDecimal(
             called_with[CHOOSE i \in Of(a) : Before(a, i) = 10 - k].pnl_pct[1])]
      Flagged(a) ==
        \E i \in 1..Len(response[1].reasoning) :
          response[1].reasoning[i] = Reason("high_recent_drawdown", a, NoTrade)
  IN (calls > 0 /\ response # None) =>
       \A a \in Assets :
         Cardinality(Of(a)) >= 10 =>
           (Flagged(a) <=>
              FGt(MaxDrawdown(Chronological(a)), FRatio(8, 100)))

\* C27: the max_drawdown that enters an asset's score is computed over the
\* asset's trades in chronological order, so learning_state and policy_deltas
\* are the same for every ordering of the same trades within trade_history:
\* they are what the call returns for the list in chronological order.
OrderingOfTradeHistoryDoesNotMatter ==
  (calls > 0 /\ response # None) =>
    LET chronological == TradesReversed(SortTradesByExecutedAtDesc(called_with))
        sorted == RunLearningCycleResult(chronological, execution_result,
                                         price_history).response[1]
    IN /\ response[1].learning_state = sorted.learning_state
       /\ response[1].policy_deltas = sorted.policy_deltas

\* C28: the volatility used for scoring is the sample standard deviation
\* (divisor n - 1) of the asset's pnl fractions, and 0 with fewer than 2
\* trades.
VolatilityIsSampleStandardDeviation ==
  (/\ invoked # None
   /\ outcome # None
   /\ invoked[1].function = "_calculate_asset_performance")
  => LET Sample(pnl_pcts) ==
           IF Len(pnl_pcts) < 2 THEN FZero ELSE NpStd(pnl_pcts, 1)
     IN outcome[1].volatility
          = Sample(ListOf([i \in 1..Len(invoked[1].pnl_pcts) |->
                             FRatio(invoked[1].pnl_pcts[i], PnlScale)]))

\* C30: assets in warmup are exempt from drawdown-clustering detection as
\* well as from scoring: an asset with fewer than 10 trades never causes a
\* risk flag, even if all its trades are losses, so whenever learning_state
\* is warmup or insufficient_data both policy_deltas.asset_biases and
\* policy_deltas.risk are empty.
WarmupAssetsAreExemptFromClustering ==
  (calls > 0 /\ response # None) =>
    /\ \A i \in 1..Len(response[1].reasoning) :
         response[1].reasoning[i].kind
             \in {"consecutive_losses", "high_recent_drawdown", "positive_bias",
                  "negative_bias"}
           => Cardinality({j \in 1..Len(called_with) :
                             called_with[j].asset_id = response[1].reasoning[i].asset})
                >= 10
    /\ response[1].learning_state \in {"warmup", "insufficient_data"}
         => /\ DOMAIN response[1].policy_deltas.asset_biases = {}
            /\ DOMAIN response[1].policy_deltas.risk = {}
    /\ (\A a \in Assets :
          Cardinality({j \in 1..Len(called_with) : called_with[j].asset_id = a}) < 10)
         => response[1].learning_state \in {"warmup", "insufficient_data"}

\* nine trades of B, each a loss of 10%, and three of A with two losses of
\* 4%: warmup, nothing flagged
OnlyLosingAssetsInWarmup ==
  /\ calls > 0 /\ response # None
  /\ Cardinality({i \in 1..Len(called_with) : called_with[i].asset_id = "B"}) = 9
  /\ Cardinality({i \in 1..Len(called_with) : called_with[i].asset_id = "A"}) = 3
  /\ \A i \in 1..Len(called_with) :
       called_with[i].asset_id = "B" => called_with[i].pnl_pct = Some(-10)
  /\ response[1].learning_state = "warmup"
  /\ response[1].policy_deltas = PolicyDeltas

\* C24: after any sequence of strategy and learning-result insertions, GET
\* /bias for a strategy name answers 404 when no strategy has that name or
\* when the strategy has no learning result, and otherwise answers with the
\* fields of a learning result of that strategy (never of another one) whose
\* created_at is the greatest among that strategy's results; the request
\* leaves both tables as they were.
GetBiasReturnsLatestResultOfStrategy ==
  [][bias_response' # bias_response =>
       /\ strategies' = strategies
       /\ learning_results' = learning_results
       /\ LET answer == bias_response'[1]
              ids == {row.id : row \in {r \in strategies :
                                          r.strategy_name = answer.strategy}}
              own == {i \in 1..Len(learning_results) :
                        learning_results[i].strategy_id \in ids}
          IN IF ids = {} \/ own = {}
             THEN answer.status_code = 404 /\ answer.body = None
             ELSE /\ answer.status_code = 200
                  /\ answer.body # None
                  /\ answer.body[1].strategy_name = answer.strategy
                  /\ \E i \in own :
                       /\ \A k \in own : learning_results[k].created_at
                                           <= learning_results[i].created_at
                       /\ answer.body[1].bias_adjustment
                            = learning_results[i].bias_adjustment
                       /\ answer.body[1].risk_level = learning_results[i].risk_level
                       /\ answer.body[1].market_regime
                            = learning_results[i].market_regime
                       /\ answer.body[1].confidence = learning_results[i].confidence
                       /\ answer.body[1].last_updated = learning_results[i].created_at
  ]_vars

\* the answer is the strategy's result inserted first, created after its
\* second one, while the other strategy has the result inserted last
LatestResultIsNotTheLastInserted ==
  /\ bias_response # None
  /\ bias_response[1].status_code = 200
  /\ bias_response[1].strategy = "EMA_CROSS"
  /\ strategies = {[id |-> "strat1", strategy_name |-> "EMA_CROSS"],
                   [id |-> "strat2", strategy_name |-> "RSI_STRATEGY"]}
  /\ Len(learning_results) = 3
  /\ learning_results[1].strategy_id = "strat1" /\ learning_results[1].created_at = 2
  /\ learning_results[2].strategy_id = "strat1" /\ learning_results[2].created_at = 1
  /\ learning_results[3].strategy_id = "strat2" /\ learning_results[3].created_at = 2
  /\ learning_results[1].bias_adjustment = 15
  /\ learning_results[2].bias_adjustment = -5
  /\ learning_results[3].bias_adjustment = -5
  /\ bias_response[1].body[1].bias_adjustment = 15

=============================================================================
